---- MODULE Spec2Model ----
(***************************************************************************)
(* Model of telegramify-go: the entity-preserving splitter                 *)
(* (SplitEntities), the newline-trim utilities (stripNewlinesAdjust,       *)
(* stripNewlinesAdjustInternal) and the pipeline orchestrator              *)
(* (ProcessMarkdown).                                                      *)
(*                                                                         *)
(* A Go string is a sequence of bytes (0..255).  Byte positions are Go's   *)
(* 0-based positions: the byte at position i is s[i+1], and the slice      *)
(* s[a:b] is SubSeq(s, a+1, b).  A nil slice and an empty slice are both   *)
(* the empty sequence.                                                     *)
(***************************************************************************)
EXTENDS Integers, Sequences, FiniteSets, TLC

VARIABLES
    pc,             \* position of the modelled call
    text,           \* SplitEntities: text
    entities,       \* SplitEntities: entities
    maxUTF16Len,    \* SplitEntities: maxUTF16Len
    byteStart,      \* SplitEntities: byteStart
    chunksRanges,   \* SplitEntities: chunksRanges
    result,         \* SplitEntities: result; ProcessMarkdown: result
    stripped,       \* stripNewlinesAdjust(Internal): the returned text
    adjusted,       \* stripNewlinesAdjust(Internal): the returned entities
    fullText,       \* ProcessMarkdown: fullText
    fullEntities,   \* ProcessMarkdown: fullEntities
    segments,       \* ProcessMarkdown: segments
    maxMessageLength, \* ProcessMarkdown: maxMessageLength
    renderOK,       \* handleMermaid: whether the k-th render returns without an error
    codePoints,     \* the code points of the text UTF16Len is applied to
    counts,         \* what UTF16Len and the buffer's utf16Len returned
    w,              \* EventWalker: w, with its TextBuffer
    open,           \* the AST nodes entered and not yet exited, innermost last
    spans,          \* the nodes exited, with the buffer offsets at enter and exit
    walked,         \* the number of nodes entered
    tb,             \* TextBuffer: tb
    calls,          \* the calls made on tb, with what they returned
    defaultConfig,  \* config.go: defaultConfig
    defaultConfigOnce, \* config.go: defaultConfigOnce
    goroutines      \* the goroutines that convert, with their local variables

splitVars == <<text, entities, maxUTF16Len, byteStart, chunksRanges, result>>

trimVars == <<stripped, adjusted>>

pipeVars == <<fullText, fullEntities, segments, maxMessageLength, renderOK>>

utfVars == <<codePoints, counts>>

walkVars == <<w, open, spans, walked>>

bufVars == <<tb, calls>>

goVars == <<defaultConfig, defaultConfigOnce, goroutines>>

vars == <<pc, splitVars, trimVars, pipeVars, utfVars, walkVars, bufVars, goVars>>

(***************************************************************************)
(* Bounds of the explored inputs.                                          *)
(***************************************************************************)
MaxChars == 3
MaxBudget == 2
MaxOffset == 2
MaxNodes == 3
NumGoroutines == 2
MaxCalls == 4

(***************************************************************************)
(* Characters, as their UTF-8 encodings.                                   *)
(***************************************************************************)
ChA == <<97>>
ChNL == <<10>>
ChE2 == <<195, 169>>
ChE4 == <<240, 159, 152, 128>>

SplitChars == {ChA, ChNL, ChE2, ChE4}

RECURSIVE Flatten(_)
Flatten(cs) == IF cs = <<>> THEN <<>> ELSE Head(cs) \o Flatten(Tail(cs))

TextsOver(chars, n) == { Flatten(cs) : cs \in UNION { [1..k -> chars] : k \in 0..n } }

(***************************************************************************)
(* Go's decoding of a string, as done by `for i, r := range s`.            *)
(***************************************************************************)
RuneError == 65533

IsCont(b) == b >= 128 /\ b <= 191

DecodeRune(s, i) ==
    LET n  == Len(s) - i
        b0 == s[i + 1]
        b1 == s[i + 2]
        b2 == s[i + 3]
        b3 == s[i + 4]
        lo == IF b0 = 224 THEN 160 ELSE IF b0 = 240 THEN 144 ELSE 128
        hi == IF b0 = 237 THEN 159 ELSE IF b0 = 244 THEN 143 ELSE 191
    IN  IF b0 < 128 THEN [r |-> b0, size |-> 1]
        ELSE IF b0 >= 194 /\ b0 <= 223 /\ n >= 2 /\ IsCont(b1)
            THEN [r |-> (b0 - 192) * 64 + (b1 - 128), size |-> 2]
        ELSE IF b0 >= 224 /\ b0 <= 239 /\ n >= 3 /\ b1 >= lo /\ b1 <= hi /\ IsCont(b2)
            THEN [r |-> (b0 - 224) * 4096 + (b1 - 128) * 64 + (b2 - 128), size |-> 3]
        ELSE IF b0 >= 240 /\ b0 <= 244 /\ n >= 4 /\ b1 >= lo /\ b1 <= hi
                /\ IsCont(b2) /\ IsCont(b3)
            THEN [r |-> (b0 - 240) * 262144 + (b1 - 128) * 4096
                        + (b2 - 128) * 64 + (b3 - 128), size |-> 4]
        ELSE [r |-> RuneError, size |-> 1]

RECURSIVE RangeFrom(_, _)
RangeFrom(s, i) ==
    IF i >= Len(s) THEN <<>>
    ELSE LET d == DecodeRune(s, i)
         IN  <<[i |-> i, r |-> d.r]>>
             \o (CHOOSE rest \in { RangeFrom(s, j) : j \in {i + d.size} } : TRUE)

\* the (index, rune) pairs that `range s` yields
RangeString(s) == RangeFrom(s, 0)

\* len(string(r))
RuneLen(r) == IF r < 128 THEN 1 ELSE IF r < 2048 THEN 2 ELSE IF r < 65536 THEN 3 ELSE 4

\* faulty variant: every rune counts one unit
RuneUnitsOne(r) == 1

RuneUnits(r) == IF r > 65535 THEN 2 ELSE 1

RECURSIVE SumUnits(_)
SumUnits(rs) == IF rs = <<>> THEN 0 ELSE RuneUnits(Head(rs).r) + SumUnits(Tail(rs))

UTF16Len(s) == SumUnits(RangeString(s))

\* s[a:b]
Slice(s, a, b) == SubSeq(s, a + 1, b)

max(a, b) == IF a > b THEN a ELSE b

min(a, b) == IF a < b THEN a ELSE b

(***************************************************************************)
(* MessageEntity values.                                                   *)
(***************************************************************************)
MessageEntity(k, o, n) ==
    [Type |-> k.Type, Offset |-> o, Length |-> n, URL |-> k.URL,
     Language |-> k.Language, CustomEmojiID |-> k.CustomEmojiID]

KindBold == [Type |-> "bold", URL |-> "", Language |-> "", CustomEmojiID |-> ""]
KindLink == [Type |-> "text_link", URL |-> "https://example.com", Language |-> "",
             CustomEmojiID |-> ""]
KindPre == [Type |-> "pre", URL |-> "", Language |-> "go", CustomEmojiID |-> ""]
KindEmoji == [Type |-> "custom_emoji", URL |-> "", Language |-> "",
              CustomEmojiID |-> "5368324170671202286"]

Kinds == {KindBold, KindLink, KindPre, KindEmoji}

\* entities, valid for a text or not: bold ones at every offset (also negative) with
\* every length (also zero), the other kinds at offset 0
AnyEntities ==
    { MessageEntity(KindBold, o, n) : o \in (0 - 1)..MaxOffset, n \in 0..(MaxOffset + 1) }
    \cup { MessageEntity(k, 0, n) : k \in Kinds, n \in 1..(MaxOffset + 1) }

\* the Entity invariant of the data model, relative to a text
ValidEntity(e, t) == e.Offset >= 0 /\ e.Length > 0 /\ e.Offset + e.Length <= UTF16Len(t)

AllValidFor(ents, t) == \A k \in 1..Len(ents) : ValidEntity(ents[k], t)

\* byte positions at which a character of t starts, and the end of t
CharBoundaries(t) == { RangeString(t)[k].i : k \in 1..Len(RangeString(t)) } \cup {Len(t)}

\* entity lists: none, any one entity, or a bold entity followed by a link
EntityLists ==
    {<<>>} \cup { <<e>> : e \in AnyEntities }
    \cup { <<MessageEntity(KindBold, o, 1), MessageEntity(KindLink, 0, MaxOffset + 1)>> :
             o \in 0..MaxOffset }

(***************************************************************************)
(* internal/buffer/buffer.go: utf16Len, and the two counts side by side    *)
(***************************************************************************)
\* the buffer's own copy of the count
utf16Len(s) == SumUnits(RangeString(s))

\* neither function has returned yet
NotCalled == [UTF16Len |-> 0 - 1, utf16Len |-> 0 - 1]

\* string(rune(cp)): the UTF-8 encoding of a code point (surrogates excluded)
EncodeRune(cp) ==
    IF cp < 128 THEN <<cp>>
    ELSE IF cp < 2048 THEN <<192 + (cp \div 64), 128 + (cp % 64)>>
    ELSE IF cp < 65536
        THEN <<224 + (cp \div 4096), 128 + ((cp \div 64) % 64), 128 + (cp % 64)>>
    ELSE <<240 + (cp \div 262144), 128 + ((cp \div 4096) % 64),
           128 + ((cp \div 64) % 64), 128 + (cp % 64)>>

RECURSIVE EncodeRunes(_)
EncodeRunes(cps) == IF cps = <<>> THEN <<>> ELSE EncodeRune(Head(cps)) \o EncodeRunes(Tail(cps))

\* code points of every encoded length, on both sides of U+FFFF: a, e acute, a CJK
\* ideograph, U+FFFF, U+10000, a regional indicator
CodePoints == {97, 233, 20320, 65535, 65536, 127482}

CodePointSeqs == UNION { [1..k -> CodePoints] : k \in 0..MaxChars }

(***************************************************************************)
(* internal/converter/walker.go: the walker after NewEventWalker           *)
(***************************************************************************)
\* buf.parts and buf.utf16Offset are the fields parts and utf16Offset; owners[k] is the
\* AST node entities[k] was emitted for (it is not a field of the program)
\* buffer.New()
New == [parts |-> <<>>, utf16Offset |-> 0]

\* a pointer that was not set; stores counts the assignments to it
Nil == [set |-> FALSE, stores |-> 0]

\* a sync.Once whose function was not run
NotDone == [done |-> FALSE, m |-> 0]

NewEventWalker ==
    [parts |-> <<>>, utf16Offset |-> 0, entityStack |-> <<>>, entities |-> <<>>,
     owners |-> <<>>, blockCount |-> 0, listStack |-> <<>>, itemIndent |-> <<>>,
     inTable |-> FALSE, tableRows |-> <<>>, currentRow |-> <<>>,
     inTableCell |-> FALSE, cellParts |-> <<>>, headingEntities |-> <<>>,
     inHeading |-> FALSE, blockquoteScopes |-> <<>>, CiteExpandable |-> TRUE,
     segments |-> <<>>]

(***************************************************************************)
(* converter.go: findNewlinePositions, buildUTF16OffsetTable               *)
(***************************************************************************)
\* the inner loop: bytePos after the runes that start before byte index i
RECURSIVE BytePosBefore(_, _)
BytePosBefore(rs, i) ==
    IF rs = <<>> \/ Head(rs).i = i THEN 0
    ELSE RuneLen(Head(rs).r)
         + (CHOOSE pos \in { BytePosBefore(rest, j) : rest \in {Tail(rs)}, j \in {i} } : TRUE)

RECURSIVE NewlinePoints(_, _)
NewlinePoints(rs, all) ==
    IF rs = <<>> THEN <<>>
    ELSE (IF Head(rs).r = 10 THEN <<BytePosBefore(all, Head(rs).i) + 1>> ELSE <<>>)
         \o NewlinePoints(Tail(rs), all)

\* both loops range over the same decoding of the text, which is computed once
findNewlinePositions(t) ==
    CHOOSE points \in { NewlinePoints(rs, rs) : rs \in {RangeString(t)} } : TRUE

\* the loop of buildUTF16OffsetTable over the runes rs, from (offsets, cum, bytePos)
RECURSIVE OffsetLoop(_, _, _, _)
OffsetLoop(rs, offsets, cum, bytePos) ==
    IF rs = <<>> THEN [offsets |-> offsets, cum |-> cum]
    ELSE CHOOSE l \in { OffsetLoop(rest, o, c, b) :
                            rest \in {Tail(rs)},
                            o \in {[offsets EXCEPT ![bytePos] = cum]},
                            c \in {cum + RuneUnits(Head(rs).r)},
                            b \in {bytePos + RuneLen(Head(rs).r)} } : TRUE

\* result[i] for byte position i in 0..len(text); make() zeroes the table
buildUTF16OffsetTable(t) ==
    CHOOSE table \in { [l.offsets EXCEPT ![Len(t)] = l.cum] :
                          l \in {OffsetLoop(RangeString(t), [i \in 0..Len(t) |-> 0], 0, 0)} } : TRUE

InitUTF16 ==
    /\ pc = "call"
    /\ codePoints \in CodePointSeqs
    /\ text = EncodeRunes(codePoints)
    /\ counts = NotCalled
    /\ entities = <<>>
    /\ maxUTF16Len = 0
    /\ byteStart = 0
    /\ chunksRanges = <<>>
    /\ result = <<>>
    /\ stripped = <<>>
    /\ adjusted = <<>>
    /\ fullText = <<>>
    /\ fullEntities = <<>>
    /\ segments = <<>>
    /\ maxMessageLength = 0
    /\ renderOK = <<>>
    /\ w = NewEventWalker
    /\ open = <<>>
    /\ spans = <<>>
    /\ walked = 0
    /\ tb = New
    /\ calls = <<>>
    /\ defaultConfig = Nil
    /\ defaultConfigOnce = NotDone
    /\ goroutines = <<>>

\* the public UTF16Len is applied to the text
CallUTF16Len ==
    /\ counts.UTF16Len < 0
    /\ counts' = [counts EXCEPT !.UTF16Len = UTF16Len(text)]
    /\ UNCHANGED <<pc, codePoints, splitVars, trimVars, pipeVars, walkVars, bufVars, goVars>>

\* the buffer's utf16Len is applied to the text
CallBufferUTF16Len ==
    /\ counts.utf16Len < 0
    /\ counts' = [counts EXCEPT !.utf16Len = utf16Len(text)]
    /\ UNCHANGED <<pc, codePoints, splitVars, trimVars, pipeVars, walkVars, bufVars, goVars>>

NextUTF16 ==
    \/ CallUTF16Len
    \/ CallBufferUTF16Len

SpecUTF16 == InitUTF16 /\ [][NextUTF16]_vars

(***************************************************************************)
(* converter.go: SplitEntities                                             *)
(***************************************************************************)
\* faulty variant: the early return taken only below the budget
FitsUnsplitStrict(t, maxLen) == UTF16Len(t) < maxLen

\* total <= maxUTF16Len
FitsUnsplit(t, maxLen) == UTF16Len(t) <= maxLen

\* the scan of the split points for the last one within budget
RECURSIVE BestSplitLoop(_, _, _, _, _)
BestSplitLoop(sps, offsets, bs, utf16Budget, bestSplit) ==
    IF sps = <<>> THEN bestSplit
    ELSE LET sp == Head(sps)
         IN  IF sp <= bs
                THEN BestSplitLoop(Tail(sps), offsets, bs, utf16Budget, bestSplit)
             ELSE IF sp < Cardinality(DOMAIN offsets) /\ offsets[sp] <= utf16Budget
                THEN BestSplitLoop(Tail(sps), offsets, bs, utf16Budget, sp)
             ELSE bestSplit

\* offsets and splitPoints are built once, before the cut loop
NewlineSplit(t, bs, maxLen) ==
    CHOOSE bestSplit \in
        { BestSplitLoop(splitPoints, offsets, bs, offsets[bs] + maxLen, 0 - 1) :
            offsets \in {buildUTF16OffsetTable(t)},
            splitPoints \in {findNewlinePositions(t)} } : TRUE

\* faulty variant: the hard split without the forced progress
HardSplitNoProgress(t, bs, maxLen) ==
    LET offsets == buildUTF16OffsetTable(t)
        utf16Budget == offsets[bs] + maxLen
        over == { i \in (bs + 1)..Len(t) : offsets[i] > utf16Budget }
    IN  IF over = {} THEN bs
        ELSE (CHOOSE i \in over : \A j \in over : i <= j) - 1

\* the hard split at the budget boundary, with the forced progress
HardSplit(t, bs, maxLen) ==
    CHOOSE bestSplit \in
        { IF first = bs THEN bs + 1 ELSE first :
            first \in { IF over = {} THEN bs
                        ELSE (CHOOSE i \in over : \A j \in over : i <= j) - 1 :
                        over \in { { i \in (bs + 1)..Len(t) : offsets[i] > offsets[bs] + maxLen } :
                                     offsets \in {buildUTF16OffsetTable(t)} } } } : TRUE

\* the remaining text fits in the budget
RemainingFits(t, bs, maxLen) ==
    LET offsets == buildUTF16OffsetTable(t)
    IN  offsets[Len(t)] <= offsets[bs] + maxLen

\* faulty variant: a scan that found no split point is not sent to the hard split
UseHardSplitAtStartOnly(t, bs, maxLen) == NewlineSplit(t, bs, maxLen) = bs

\* bestSplit == -1 || bestSplit == byteStart
UseHardSplit(t, bs, maxLen) ==
    LET bestSplit == NewlineSplit(t, bs, maxLen)
    IN  bestSplit = 0 - 1 \/ bestSplit = bs

\* bestSplit of one iteration of the cut loop
CutPoint(t, bs, maxLen) ==
    IF UseHardSplit(t, bs, maxLen) THEN HardSplit(t, bs, maxLen)
    ELSE NewlineSplit(t, bs, maxLen)

\* the clipped copy of one entity in the chunk [chunkUTF16Start, chunkUTF16End)
ClipEntity(ent, chunkUTF16Start, chunkUTF16End) ==
    LET entStart == ent.Offset
        entEnd == ent.Offset + ent.Length
        clippedStart == max(entStart, chunkUTF16Start)
        clippedEnd == min(entEnd, chunkUTF16End)
        clippedLength == clippedEnd - clippedStart
    IN  IF entEnd <= chunkUTF16Start \/ entStart >= chunkUTF16End THEN <<>>
        ELSE IF clippedLength <= 0 THEN <<>>
        ELSE <<[Type |-> ent.Type, Offset |-> clippedStart - chunkUTF16Start,
                Length |-> clippedLength, URL |-> ent.URL, Language |-> ent.Language,
                CustomEmojiID |-> ent.CustomEmojiID]>>

RECURSIVE ClipEntities(_, _, _)
ClipEntities(ents, chunkUTF16Start, chunkUTF16End) ==
    IF ents = <<>> THEN <<>>
    ELSE ClipEntity(Head(ents), chunkUTF16Start, chunkUTF16End)
         \o ClipEntities(Tail(ents), chunkUTF16Start, chunkUTF16End)

\* faulty variant: the newline a chunk ends with is left out of the chunk
ChunkOfDropNewline(t, ents, chunkRange) ==
    LET offsets == buildUTF16OffsetTable(t)
        end == IF chunkRange[2] > chunkRange[1] /\ t[chunkRange[2]] = 10
               THEN chunkRange[2] - 1 ELSE chunkRange[2]
    IN  [Text |-> Slice(t, chunkRange[1], end),
         Entities |-> ClipEntities(ents, offsets[chunkRange[1]], offsets[chunkRange[2]])]

\* the TextChunk of one range of chunksRanges
ChunkOf(t, ents, chunkRange) ==
    LET offsets == buildUTF16OffsetTable(t)
    IN  [Text |-> Slice(t, chunkRange[1], chunkRange[2]),
         Entities |-> ClipEntities(ents, offsets[chunkRange[1]], offsets[chunkRange[2]])]

RECURSIVE AssignChunks(_, _, _)
AssignChunks(t, ents, ranges) ==
    IF ranges = <<>> THEN <<>>
    ELSE <<ChunkOf(t, ents, Head(ranges))>> \o AssignChunks(t, ents, Tail(ranges))

Texts == TextsOver(SplitChars, MaxChars)

Budgets == (0 - 1)..MaxBudget

\* a line longer than the budget whose two-byte character lies across it, then a line
LongLines == { <<97, 97, 195, 169, 10, 97, 97>> }

InitSplit ==
    /\ pc = "call"
    /\ text \in Texts \cup LongLines
    /\ entities \in EntityLists
    /\ maxUTF16Len \in Budgets
    /\ byteStart = 0
    /\ chunksRanges = <<>>
    /\ result = <<>>
    /\ stripped = <<>>
    /\ adjusted = <<>>
    /\ fullText = <<>>
    /\ fullEntities = <<>>
    /\ segments = <<>>
    /\ maxMessageLength = 0
    /\ renderOK = <<>>
    /\ codePoints = <<>>
    /\ counts = NotCalled
    /\ w = NewEventWalker
    /\ open = <<>>
    /\ spans = <<>>
    /\ walked = 0
    /\ tb = New
    /\ calls = <<>>
    /\ defaultConfig = Nil
    /\ defaultConfigOnce = NotDone
    /\ goroutines = <<>>

\* total <= maxUTF16Len: the input is returned as the only chunk
ReturnUnsplit ==
    /\ pc = "call"
    /\ FitsUnsplit(text, maxUTF16Len)
    /\ result' = <<[Text |-> text, Entities |-> entities]>>
    /\ pc' = "done"
    /\ UNCHANGED <<text, entities, maxUTF16Len, byteStart, chunksRanges>>
    /\ UNCHANGED <<trimVars, pipeVars, utfVars, walkVars, bufVars, goVars>>

StartSplit ==
    /\ pc = "call"
    /\ ~FitsUnsplit(text, maxUTF16Len)
    /\ byteStart' = 0
    /\ chunksRanges' = <<>>
    /\ pc' = "cut"
    /\ UNCHANGED <<text, entities, maxUTF16Len, result>>
    /\ UNCHANGED <<trimVars, pipeVars, utfVars, walkVars, bufVars, goVars>>

\* the remaining text fits: last range, break
CutRemaining ==
    /\ pc = "cut"
    /\ byteStart < Len(text)
    /\ RemainingFits(text, byteStart, maxUTF16Len)
    /\ chunksRanges' = Append(chunksRanges, <<byteStart, Len(text)>>)
    /\ pc' = "assign"
    /\ UNCHANGED <<text, entities, maxUTF16Len, byteStart, result>>
    /\ UNCHANGED <<trimVars, pipeVars, utfVars, walkVars, bufVars, goVars>>

CutNewline ==
    /\ pc = "cut"
    /\ byteStart < Len(text)
    /\ ~RemainingFits(text, byteStart, maxUTF16Len)
    /\ ~UseHardSplit(text, byteStart, maxUTF16Len)
    /\ LET bestSplit == CutPoint(text, byteStart, maxUTF16Len)
       IN  /\ chunksRanges' = Append(chunksRanges, <<byteStart, bestSplit>>)
           /\ byteStart' = bestSplit
    /\ UNCHANGED <<pc, text, entities, maxUTF16Len, result>>
    /\ UNCHANGED <<trimVars, pipeVars, utfVars, walkVars, bufVars, goVars>>

CutHard ==
    /\ pc = "cut"
    /\ byteStart < Len(text)
    /\ ~RemainingFits(text, byteStart, maxUTF16Len)
    /\ UseHardSplit(text, byteStart, maxUTF16Len)
    /\ LET bestSplit == CutPoint(text, byteStart, maxUTF16Len)
       IN  /\ chunksRanges' = Append(chunksRanges, <<byteStart, bestSplit>>)
           /\ byteStart' = bestSplit
    /\ UNCHANGED <<pc, text, entities, maxUTF16Len, result>>
    /\ UNCHANGED <<trimVars, pipeVars, utfVars, walkVars, bufVars, goVars>>

\* byteStart reached len(text): the cut loop ends
CutLoopExit ==
    /\ pc = "cut"
    /\ ~(byteStart < Len(text))
    /\ pc' = "assign"
    /\ UNCHANGED <<text, entities, maxUTF16Len, byteStart, chunksRanges, result>>
    /\ UNCHANGED <<trimVars, pipeVars, utfVars, walkVars, bufVars, goVars>>

\* the second loop: entities are assigned to the chunks
AssignEntities ==
    /\ pc = "assign"
    /\ result' = AssignChunks(text, entities, chunksRanges)
    /\ pc' = "done"
    /\ UNCHANGED <<text, entities, maxUTF16Len, byteStart, chunksRanges>>
    /\ UNCHANGED <<trimVars, pipeVars, utfVars, walkVars, bufVars, goVars>>

NextSplit ==
    \/ ReturnUnsplit
    \/ StartSplit
    \/ CutRemaining
    \/ CutNewline
    \/ CutHard
    \/ CutLoopExit
    \/ AssignEntities

SpecSplit == InitSplit /\ [][NextSplit]_vars

\* the calls with no entity or with two overlapping ones
InitSplitFair ==
    /\ InitSplit
    /\ entities \in {<<>>, <<MessageEntity(KindBold, 0, 1), MessageEntity(KindLink, 0, MaxOffset + 1)>>}

\* the call runs on: a step that can be taken is taken
SpecSplitFair == InitSplitFair /\ [][NextSplit]_vars /\ WF_vars(NextSplit)

(***************************************************************************)
(* pipeline.go: stripNewlinesAdjustInternal; converter.go: stripNewlinesAdjust *)
(***************************************************************************)
\* the leading runes that are '\n', counted over `range text`
RECURSIVE LeadingLoop(_)
LeadingLoop(rs) ==
    IF rs = <<>> \/ Head(rs).r # 10 THEN 0 ELSE 1 + LeadingLoop(Tail(rs))

\* the trailing runes that are '\n', counted backwards over []rune(text)
RECURSIVE TrailingLoop(_)
TrailingLoop(rs) ==
    IF rs = <<>> \/ rs[Len(rs)].r # 10 THEN 0
    ELSE 1 + TrailingLoop(SubSeq(rs, 1, Len(rs) - 1))

CountLeading(t) == LeadingLoop(RangeString(t))

\* faulty variant: at most one trailing newline is counted
CountTrailingOne(t) == IF TrailingLoop(RangeString(t)) > 0 THEN 1 ELSE 0

CountTrailing(t) == TrailingLoop(RangeString(t))

\* faulty variant: the offset is re-based but the end is not clipped to the new length
AdjustEntityInternalNoClip(ent, leadingUTF16, newUTF16Len) ==
    LET newOffset == ent.Offset - leadingUTF16
        newEnd == newOffset + ent.Length
        clippedOffset == IF newOffset < 0 THEN 0 ELSE newOffset
        newLength == newEnd - clippedOffset
    IN  IF newEnd <= 0 \/ newOffset >= newUTF16Len THEN <<>>
        ELSE IF newLength <= 0 THEN <<>>
        ELSE <<[Type |-> ent.Type, Offset |-> clippedOffset, Length |-> newLength,
                URL |-> ent.URL, Language |-> ent.Language,
                CustomEmojiID |-> ent.CustomEmojiID]>>

\* the body of the entity loop of stripNewlinesAdjustInternal
AdjustEntityInternal(ent, leadingUTF16, newUTF16Len) ==
    LET newOffset == ent.Offset - leadingUTF16
        newEnd == newOffset + ent.Length
        clippedOffset == IF newOffset < 0 THEN 0 ELSE newOffset
        clippedEnd == IF newEnd > newUTF16Len THEN newUTF16Len ELSE newEnd
        newLength == clippedEnd - clippedOffset
    IN  IF newEnd <= 0 \/ newOffset >= newUTF16Len THEN <<>>
        ELSE IF newLength <= 0 THEN <<>>
        ELSE <<[Type |-> ent.Type, Offset |-> clippedOffset, Length |-> newLength,
                URL |-> ent.URL, Language |-> ent.Language,
                CustomEmojiID |-> ent.CustomEmojiID]>>

RECURSIVE AdjustEntitiesInternal(_, _, _)
AdjustEntitiesInternal(ents, leadingUTF16, newUTF16Len) ==
    IF ents = <<>> THEN <<>>
    ELSE AdjustEntityInternal(Head(ents), leadingUTF16, newUTF16Len)
         \o AdjustEntitiesInternal(Tail(ents), leadingUTF16, newUTF16Len)

\* the function after the two counting loops; end is len(text) - trailing
\* faulty variant: the empty result keeps the entities passed
StripInternalFromKeep(t, ents, leading, trailing, end) ==
    IF leading = 0 /\ trailing = 0 THEN [panic |-> FALSE, Text |-> t, Entities |-> ents]
    ELSE IF leading >= end THEN [panic |-> FALSE, Text |-> <<>>, Entities |-> ents]
    ELSE [panic |-> FALSE, Text |-> Slice(t, leading, end),
          Entities |-> AdjustEntitiesInternal(ents, leading, UTF16Len(Slice(t, leading, end)))]

\* the function after the two counting loops; end is len(text) - trailing
StripInternalFrom(t, ents, leading, trailing, end) ==
    IF leading = 0 /\ trailing = 0 THEN [panic |-> FALSE, Text |-> t, Entities |-> ents]
    ELSE IF leading >= end THEN [panic |-> FALSE, Text |-> <<>>, Entities |-> <<>>]
    ELSE IF Slice(t, leading, end) = <<>> THEN [panic |-> FALSE, Text |-> <<>>, Entities |-> <<>>]
    ELSE [panic |-> FALSE, Text |-> Slice(t, leading, end),
          Entities |-> AdjustEntitiesInternal(ents, leading, UTF16Len(Slice(t, leading, end)))]

stripNewlinesAdjustInternal(t, ents) ==
    StripInternalFrom(t, ents, CountLeading(t), CountTrailing(t), Len(t) - CountTrailing(t))

\* the body of the entity loop of stripNewlinesAdjust
AdjustEntity(ent, leadingUTF16, newUTF16Len) ==
    LET newOffset == ent.Offset - leadingUTF16
        newEnd == newOffset + ent.Length
        clippedOffset == max(0, newOffset)
        clippedEnd == min(newEnd, newUTF16Len)
        newLength == clippedEnd - clippedOffset
    IN  IF newEnd <= 0 \/ newOffset >= newUTF16Len THEN <<>>
        ELSE IF newLength <= 0 THEN <<>>
        ELSE <<[Type |-> ent.Type, Offset |-> clippedOffset, Length |-> newLength,
                URL |-> ent.URL, Language |-> ent.Language,
                CustomEmojiID |-> ent.CustomEmojiID]>>

RECURSIVE AdjustEntities(_, _, _)
AdjustEntities(ents, leadingUTF16, newUTF16Len) ==
    IF ents = <<>> THEN <<>>
    ELSE AdjustEntity(Head(ents), leadingUTF16, newUTF16Len)
         \o AdjustEntities(Tail(ents), leadingUTF16, newUTF16Len)

\* the function after the two counting loops; end is len(text) - trailing;
\* text[leading:end] panics (slice bounds out of range) when leading > end
StripFrom(t, ents, leading, trailing, end) ==
    IF leading = 0 /\ trailing = 0 THEN [panic |-> FALSE, Text |-> t, Entities |-> ents]
    ELSE IF leading > end THEN [panic |-> TRUE, Text |-> <<>>, Entities |-> <<>>]
    ELSE IF Slice(t, leading, end) = <<>> THEN [panic |-> FALSE, Text |-> <<>>, Entities |-> <<>>]
    ELSE [panic |-> FALSE, Text |-> Slice(t, leading, end),
          Entities |-> AdjustEntities(ents, leading, UTF16Len(Slice(t, leading, end)))]

stripNewlinesAdjust(t, ents) ==
    StripFrom(t, ents, CountLeading(t), CountTrailing(t), Len(t) - CountTrailing(t))

InitTrim ==
    /\ pc = "call"
    /\ text \in Texts
    /\ entities \in EntityLists
    /\ maxUTF16Len = 0
    /\ byteStart = 0
    /\ chunksRanges = <<>>
    /\ result = <<>>
    /\ stripped = <<>>
    /\ adjusted = <<>>
    /\ fullText = <<>>
    /\ fullEntities = <<>>
    /\ segments = <<>>
    /\ maxMessageLength = 0
    /\ renderOK = <<>>
    /\ codePoints = <<>>
    /\ counts = NotCalled
    /\ w = NewEventWalker
    /\ open = <<>>
    /\ spans = <<>>
    /\ walked = 0
    /\ tb = New
    /\ calls = <<>>
    /\ defaultConfig = Nil
    /\ defaultConfigOnce = NotDone
    /\ goroutines = <<>>

CallStripInternal ==
    /\ pc = "call"
    /\ stripped' = stripNewlinesAdjustInternal(text, entities).Text
    /\ adjusted' = stripNewlinesAdjustInternal(text, entities).Entities
    /\ pc' = "internal"
    /\ UNCHANGED <<splitVars, pipeVars, utfVars, walkVars, bufVars, goVars>>

CallStripReturns ==
    /\ pc = "call"
    /\ ~stripNewlinesAdjust(text, entities).panic
    /\ stripped' = stripNewlinesAdjust(text, entities).Text
    /\ adjusted' = stripNewlinesAdjust(text, entities).Entities
    /\ pc' = "returned"
    /\ UNCHANGED <<splitVars, pipeVars, utfVars, walkVars, bufVars, goVars>>

CallStripPanics ==
    /\ pc = "call"
    /\ stripNewlinesAdjust(text, entities).panic
    /\ pc' = "panic"
    /\ UNCHANGED <<splitVars, trimVars, pipeVars, utfVars, walkVars, bufVars, goVars>>

\* stripNewlinesAdjustInternal applied to the pair it returned
CallStripInternalAgain ==
    /\ pc = "internal"
    /\ stripped' = stripNewlinesAdjustInternal(stripped, adjusted).Text
    /\ adjusted' = stripNewlinesAdjustInternal(stripped, adjusted).Entities
    /\ pc' = "internal2"
    /\ UNCHANGED <<splitVars, pipeVars, utfVars, walkVars, bufVars, goVars>>

\* stripNewlinesAdjust applied to the pair it returned
CallStripAgain ==
    /\ pc = "returned"
    /\ \E out \in {stripNewlinesAdjust(stripped, adjusted)} :
          /\ stripped' = IF out.panic THEN stripped ELSE out.Text
          /\ adjusted' = IF out.panic THEN adjusted ELSE out.Entities
          /\ pc' = IF out.panic THEN "panic" ELSE "returned2"
    /\ UNCHANGED <<splitVars, pipeVars, utfVars, walkVars, bufVars, goVars>>

NextTrim ==
    \/ CallStripInternal
    \/ CallStripReturns
    \/ CallStripPanics
    \/ CallStripInternalAgain
    \/ CallStripAgain

SpecTrim == InitTrim /\ [][NextTrim]_vars

(***************************************************************************)
(* SplitEntities as a function, for its callers                            *)
(***************************************************************************)
RECURSIVE CutRanges(_, _, _)
CutRanges(t, bs, maxLen) ==
    IF ~(bs < Len(t)) THEN <<>>
    ELSE IF RemainingFits(t, bs, maxLen) THEN <<<<bs, Len(t)>>>>
    ELSE LET bestSplit == CutPoint(t, bs, maxLen)
         IN  <<<<bs, bestSplit>>>> \o CutRanges(t, bestSplit, maxLen)

SplitEntities(t, ents, maxLen) ==
    IF FitsUnsplit(t, maxLen) THEN <<[Text |-> t, Entities |-> ents]>>
    ELSE AssignChunks(t, ents, CutRanges(t, 0, maxLen))

(***************************************************************************)
(* pipeline.go: sliceTextEntities, appendTextChunks, handleMermaid,        *)
(* handleCodeBlockAsFile, ProcessMarkdown                                  *)
(***************************************************************************)
DefaultMaxMessageLength == 4096

ExtractLineThreshold == 50

\* unicode.IsSpace, as used by strings.TrimSpace
IsSpaceRune(r) ==
    r \in {9, 10, 11, 12, 13, 32, 133, 160, 5760, 8232, 8233, 8239, 8287, 12288}
    \/ (r >= 8192 /\ r <= 8202)

RECURSIVE TrimLeftRunes(_)
TrimLeftRunes(rs) ==
    IF rs # <<>> /\ IsSpaceRune(Head(rs).r) THEN TrimLeftRunes(Tail(rs)) ELSE rs

RECURSIVE TrimRightEnd(_, _)
TrimRightEnd(rs, end) ==
    IF rs # <<>> /\ IsSpaceRune(rs[Len(rs)].r)
    THEN TrimRightEnd(SubSeq(rs, 1, Len(rs) - 1), rs[Len(rs)].i)
    ELSE end

\* strings.TrimSpace(t)
StringsTrimSpace(t) ==
    LET rest == TrimLeftRunes(RangeString(t))
    IN  IF rest = <<>> THEN <<>>
        ELSE Slice(t, Head(rest).i, TrimRightEnd(rest, Len(t)))

\* strings.Count(t, "\n")
CountNewlines(t) == Cardinality({ i \in 1..Len(t) : t[i] = 10 })

sliceTextEntities(ft, fe, pyStart, pyEnd, utf16Start, utf16End) ==
    [Text |-> Slice(ft, pyStart, pyEnd), Entities |-> ClipEntities(fe, utf16Start, utf16End)]

TextContent(t, ents) ==
    [Kind |-> "text", Text |-> t, Entities |-> ents, FileName |-> "", FileData |-> <<>>,
     SourceType |-> "text"]

\* faulty variant: a chunk is put in front of the artifacts already collected
AppendChunkInFront(res, sa) ==
    IF sa.Text # <<>> THEN <<TextContent(sa.Text, sa.Entities)>> \o res ELSE res

\* one chunk of the loop of appendTextChunks; sa is the chunk after stripNewlinesAdjust
AppendChunk(res, sa) ==
    IF sa.Text # <<>> THEN Append(res, TextContent(sa.Text, sa.Entities)) ELSE res

\* the loop of appendTextChunks over the chunks of SplitEntities
RECURSIVE AppendChunkLoop(_, _)
AppendChunkLoop(res, chunks) ==
    IF chunks = <<>> THEN [panic |-> FALSE, result |-> res]
    ELSE IF stripNewlinesAdjust(Head(chunks).Text, Head(chunks).Entities).panic
        THEN [panic |-> TRUE, result |-> res]
    ELSE AppendChunkLoop(
            AppendChunk(res, stripNewlinesAdjust(Head(chunks).Text, Head(chunks).Entities)),
            Tail(chunks))

appendTextChunks(res, t, ents, maxLen) ==
    AppendChunkLoop(res, SplitEntities(t, ents, maxLen))

\* the file name inferred by util.GetFilename is not modelled
handleCodeBlockAsFile(res, seg) ==
    Append(res, [Kind |-> "file", Text |-> <<>>, Entities |-> <<>>, FileName |-> "",
                 FileData |-> seg.RawCode, SourceType |-> "file"])

\* faulty variant: a diagram whose render fails is dropped
handleMermaidDropOnError(res, seg, rendered) ==
    IF ~rendered THEN res
    ELSE Append(res, [Kind |-> "photo", Text |-> <<>>, Entities |-> <<>>,
                      FileName |-> "mermaid.webp", FileData |-> <<>>,
                      SourceType |-> "mermaid"])

\* rendered: whether renderMermaid returned without an error
handleMermaid(res, seg, rendered) ==
    IF ~rendered
    THEN Append(res, [Kind |-> "file", Text |-> <<>>, Entities |-> <<>>,
                      FileName |-> "invalid_mermaid.txt", FileData |-> seg.RawCode,
                      SourceType |-> "mermaid"])
    ELSE Append(res, [Kind |-> "photo", Text |-> <<>>, Entities |-> <<>>,
                      FileName |-> "mermaid.webp", FileData |-> <<>>,
                      SourceType |-> "mermaid"])

\* faulty variant: a code_block is extracted from the threshold on
IsExtractableFromThreshold(seg) ==
    \/ seg.Kind = "mermaid"
    \/ seg.Kind = "code_block" /\ CountNewlines(seg.RawCode) + 1 >= ExtractLineThreshold

\* first pass: mermaid always, code_block only above the line threshold
IsExtractable(seg) ==
    \/ seg.Kind = "mermaid"
    \/ seg.Kind = "code_block" /\ CountNewlines(seg.RawCode) + 1 > ExtractLineThreshold

RECURSIVE ExtractableSegments(_)
ExtractableSegments(segs) ==
    IF segs = <<>> THEN <<>>
    ELSE (IF IsExtractable(Head(segs)) THEN <<Head(segs)>> ELSE <<>>)
         \o ExtractableSegments(Tail(segs))

\* a text run (already sliced and stripped into sa) is emitted when non-empty
EmitText(res, sa, maxLen) ==
    IF sa.panic THEN [panic |-> TRUE, result |-> res]
    ELSE IF sa.Text # <<>> THEN appendTextChunks(res, sa.Text, sa.Entities, maxLen)
    ELSE [panic |-> FALSE, result |-> res]

SliceBefore(ft, fe, seg, cursorPy, cursorUTF16) ==
    sliceTextEntities(ft, fe, cursorPy, seg.TextStart, cursorUTF16, seg.UTF16Start)

\* the text before a segment
TextBeforeSegment(res, ft, fe, seg, cursorPy, cursorUTF16, maxLen) ==
    IF seg.TextStart > cursorPy
    THEN EmitText(res,
                  stripNewlinesAdjustInternal(
                      SliceBefore(ft, fe, seg, cursorPy, cursorUTF16).Text,
                      SliceBefore(ft, fe, seg, cursorPy, cursorUTF16).Entities),
                  maxLen)
    ELSE [panic |-> FALSE, result |-> res]

\* the segment is extracted as a file or a photo
ExtractSegment(res, seg, rendered) ==
    IF seg.Kind = "mermaid" THEN handleMermaid(res, seg, rendered)
    ELSE IF seg.Kind = "code_block" THEN handleCodeBlockAsFile(res, seg)
    ELSE res

\* the loop over the extractable segments; renders[k] is the outcome of the render of
\* the k-th of them; before is the result of the text before the first of segs
RECURSIVE SegmentLoop(_, _, _, _, _, _, _)
SegmentStep(before, ft, fe, segs, renders, maxLen) ==
    IF before.panic
    THEN [panic |-> TRUE, result |-> before.result, cursorPy |-> 0, cursorUTF16 |-> 0]
    ELSE SegmentLoop(ExtractSegment(before.result, Head(segs), Head(renders)), ft, fe,
                     Tail(segs), Tail(renders), Head(segs), maxLen)

\* last is the segment the cursor was moved past (none before the first)
SegmentLoop(res, ft, fe, segs, renders, last, maxLen) ==
    IF segs = <<>>
    THEN [panic |-> FALSE, result |-> res, cursorPy |-> last.TextEnd,
          cursorUTF16 |-> last.UTF16End]
    ELSE SegmentStep(TextBeforeSegment(res, ft, fe, Head(segs), last.TextEnd,
                                       last.UTF16End, maxLen),
                     ft, fe, segs, renders, maxLen)

SliceRemaining(ft, fe, cursorPy, cursorUTF16) ==
    sliceTextEntities(ft, fe, cursorPy, Len(ft), cursorUTF16, UTF16Len(ft))

\* the remaining text after the last extracted segment
RemainingText(res, ft, fe, cursorPy, cursorUTF16, maxLen) ==
    IF cursorPy < Len(ft)
    THEN EmitText(res,
                  stripNewlinesAdjust(SliceRemaining(ft, fe, cursorPy, cursorUTF16).Text,
                                      SliceRemaining(ft, fe, cursorPy, cursorUTF16).Entities),
                  maxLen)
    ELSE [panic |-> FALSE, result |-> res]

\* "if no output was generated": the trimmed full text with the entities as they are
EmitIfNoOutput(rest, ft, fe, maxLen) ==
    IF rest.panic THEN rest
    ELSE IF Len(rest.result) = 0 /\ StringsTrimSpace(ft) # <<>>
        THEN appendTextChunks(rest.result, StringsTrimSpace(ft), fe, maxLen)
    ELSE rest

AfterSegments(loop, ft, fe, maxLen) ==
    IF loop.panic THEN [panic |-> TRUE, result |-> loop.result]
    ELSE EmitIfNoOutput(RemainingText(loop.result, ft, fe, loop.cursorPy, loop.cursorUTF16,
                                      maxLen),
                        ft, fe, maxLen)

\* faulty variant: the budget is used as passed
NormalizeMaxAsPassed(maxLen) == maxLen

\* maxMessageLength <= 0 is replaced by the default
NormalizeMax(maxLen) == IF maxLen <= 0 THEN DefaultMaxMessageLength ELSE maxLen

\* the cursor before the first segment
NoSegment == [TextEnd |-> 0, UTF16End |-> 0]

\* ProcessMarkdown after ConvertWithSegments returned (ft, fe, segs)
ProcessMarkdown(ft, fe, segs, maxLen, renders) ==
    AfterSegments(SegmentLoop(<<>>, ft, fe, ExtractableSegments(segs), renders, NoSegment,
                              NormalizeMax(maxLen)),
                  ft, fe, NormalizeMax(maxLen))

(***************************************************************************)
(* The converted documents the pipeline is run on: a text, entities valid  *)
(* for it, and segments on character boundaries, in source order.          *)
(***************************************************************************)
ChSP == <<32>>

PipeChars == {ChA, ChNL, ChSP, ChE2}

PipeTexts == TextsOver(PipeChars, MaxChars)

PipeEntityLists(t) ==
    { es \in {<<>>, <<MessageEntity(KindBold, 0, 1)>>, <<MessageEntity(KindLink, 1, MaxOffset)>>} :
        AllValidFor(es, t) }

Segment(t, kind, a, b) ==
    [Kind |-> kind, TextStart |-> a, TextEnd |-> b,
     UTF16Start |-> UTF16Len(Slice(t, 0, a)), UTF16End |-> UTF16Len(Slice(t, 0, b)),
     Language |-> IF kind = "mermaid" THEN "mermaid" ELSE "", RawCode |-> Slice(t, a, b)]

SegmentLists(t) ==
    LET bd == CharBoundaries(t)
    IN  {<<>>}
        \cup { <<Segment(t, k, r[1], r[2])>> :
                 k \in {"mermaid", "code_block"},
                 r \in { q \in bd \X bd : q[1] <= q[2] } }
        \cup { <<Segment(t, "mermaid", r[1], r[2]), Segment(t, k, r[3], r[4])>> :
                 k \in {"mermaid", "code_block"},
                 r \in { q \in bd \X bd \X bd \X bd :
                           q[1] < q[2] /\ q[2] <= q[3] /\ q[3] < q[4] } }

\* a code block of n >= 2 lines, as written to the text and kept in RawCode: a first
\* and a last line "a" and empty lines between them
CodeLines(n) == [i \in 1..(n + 1) |-> IF i = 1 \/ i = n + 1 THEN 97 ELSE 10]

\* documents with one code block at the line threshold and just above it, alone or
\* between two paragraphs, the block carrying its "pre" entity
LongDocs ==
    { [pre |-> d[1], code |-> CodeLines(d[2]), post |-> d[3]] :
        d \in {<<>>, ChA \o ChNL \o ChNL}
               \X {ExtractLineThreshold, ExtractLineThreshold + 1}
               \X {<<>>, ChNL \o ChNL \o ChA} }

LongDocText(d) == d.pre \o d.code \o d.post

LongDocEntities(d) == <<MessageEntity(KindPre, UTF16Len(d.pre), UTF16Len(d.code))>>

LongDocSegments(d) ==
    <<Segment(LongDocText(d), "code_block", Len(d.pre), Len(d.pre) + Len(d.code))>>

\* documents of two segments with a text run before, between and after them: a diagram,
\* then a diagram or a short code block
TwoSegmentDocs ==
    { [before |-> d[1], code1 |-> ChA, between |-> d[2], code2 |-> ChE2, after |-> d[3],
       kind2 |-> d[4]] :
        d \in {ChA \o ChNL \o ChNL, ChSP \o ChE2 \o ChNL \o ChNL}
               \X {ChNL \o ChNL \o ChA \o ChSP \o ChE2 \o ChNL \o ChNL, ChNL \o ChNL}
               \X {ChNL \o ChNL \o ChE2 \o ChA, <<>>}
               \X {"mermaid", "code_block"} }

TwoSegmentDocText(d) == d.before \o d.code1 \o d.between \o d.code2 \o d.after

TwoSegmentDocSegments(d) ==
    <<Segment(TwoSegmentDocText(d), "mermaid", Len(d.before), Len(d.before) + Len(d.code1)),
      Segment(TwoSegmentDocText(d), d.kind2,
              Len(d.before) + Len(d.code1) + Len(d.between),
              Len(d.before) + Len(d.code1) + Len(d.between) + Len(d.code2))>>

\* the budgets the long documents are run with: the default (from a non-positive
\* maxMessageLength) and one that splits them
LongBudgets == {0 - 1, 0, ExtractLineThreshold}

\* the outcomes of renderMermaid for the extractable segments, in order (the renders
\* of the code blocks among them are not used)
RenderOutcomes(segs) == [1..Len(ExtractableSegments(segs)) -> BOOLEAN]

InitPipeline ==
    /\ pc = "call"
    /\ \/ /\ fullText \in PipeTexts
          /\ fullEntities \in PipeEntityLists(fullText)
          /\ segments \in SegmentLists(fullText)
          /\ maxMessageLength \in Budgets
       \/ \E d \in LongDocs :
             /\ fullText = LongDocText(d)
             /\ fullEntities = LongDocEntities(d)
             /\ segments = LongDocSegments(d)
             /\ maxMessageLength \in LongBudgets
       \/ \E d \in TwoSegmentDocs :
             /\ fullText = TwoSegmentDocText(d)
             /\ fullEntities \in {<<>>, <<MessageEntity(KindBold, 0, 1)>>}
             /\ segments = TwoSegmentDocSegments(d)
             /\ maxMessageLength \in Budgets
    /\ renderOK \in RenderOutcomes(segments)
    /\ codePoints = <<>>
    /\ counts = NotCalled
    /\ w = NewEventWalker
    /\ open = <<>>
    /\ spans = <<>>
    /\ walked = 0
    /\ tb = New
    /\ calls = <<>>
    /\ defaultConfig = Nil
    /\ defaultConfigOnce = NotDone
    /\ goroutines = <<>>
    /\ result = <<>>
    /\ text = <<>>
    /\ entities = <<>>
    /\ maxUTF16Len = 0
    /\ byteStart = 0
    /\ chunksRanges = <<>>
    /\ stripped = <<>>
    /\ adjusted = <<>>

\* one call of ProcessMarkdown: it returns its artifact list or panics
CallProcessMarkdown ==
    /\ pc = "call"
    /\ \E out \in {ProcessMarkdown(fullText, fullEntities, segments, maxMessageLength,
                                  renderOK)} :
          /\ result' = out.result
          /\ pc' = IF out.panic THEN "panic" ELSE "returned"
    /\ UNCHANGED <<text, entities, maxUTF16Len, byteStart, chunksRanges>>
    /\ UNCHANGED <<trimVars, pipeVars, utfVars, walkVars, bufVars, goVars>>

NextPipeline == CallProcessMarkdown

SpecPipeline == InitPipeline /\ [][NextPipeline]_vars

(***************************************************************************)
(* internal/buffer/buffer.go: TextBuffer                                   *)
(***************************************************************************)
\* faulty variant: the text is joined to the last part instead of becoming a part
BufWriteJoined(wk, s) ==
    IF wk.parts = <<>>
    THEN [wk EXCEPT !.parts = <<s>>, !.utf16Offset = @ + utf16Len(s)]
    ELSE [wk EXCEPT !.parts[Len(wk.parts)] = @ \o s, !.utf16Offset = @ + utf16Len(s)]

\* tb.Write(text)
BufWrite(wk, s) ==
    [wk EXCEPT !.parts = Append(@, s), !.utf16Offset = @ + utf16Len(s)]

\* tb.ByteOffset()
RECURSIVE PartsLen(_)
PartsLen(ps) == IF ps = <<>> THEN 0 ELSE Len(Head(ps)) + PartsLen(Tail(ps))

ByteOffset(wk) == PartsLen(wk.parts)

\* the trailing '\n' bytes of one part, and whether the scan went through the whole part
RECURSIVE PartTrailing(_)
PartTrailing(part) ==
    IF part = <<>> THEN [count |-> 0, through |-> TRUE]
    ELSE IF part[Len(part)] = 10
        THEN [count |-> 1 + PartTrailing(SubSeq(part, 1, Len(part) - 1)).count,
              through |-> PartTrailing(SubSeq(part, 1, Len(part) - 1)).through]
    ELSE [count |-> 0, through |-> FALSE]

\* tb.TrailingNewlineCount()
RECURSIVE TrailingNewlines(_)
TrailingNewlines(ps) ==
    IF ps = <<>> THEN 0
    ELSE IF PartTrailing(ps[Len(ps)]).through
        THEN PartTrailing(ps[Len(ps)]).count + TrailingNewlines(SubSeq(ps, 1, Len(ps) - 1))
    ELSE PartTrailing(ps[Len(ps)]).count

\* faulty variant: the scan stops at the start of the last part
TrailingNewlineCountOfLast(wk) ==
    IF wk.parts = <<>> THEN 0 ELSE PartTrailing(wk.parts[Len(wk.parts)]).count

TrailingNewlineCount(wk) == TrailingNewlines(wk.parts)

\* faulty variant: the part is removed and the offset is left as it was
PopLastKeepOffset(wk) ==
    IF wk.parts = <<>> THEN wk
    ELSE [wk EXCEPT !.parts = SubSeq(@, 1, Len(@) - 1)]

\* tb.PopLast(), the returned part apart
PopLast(wk) ==
    IF wk.parts = <<>> THEN wk
    ELSE [wk EXCEPT !.parts = SubSeq(@, 1, Len(@) - 1),
                    !.utf16Offset = @ - utf16Len(wk.parts[Len(wk.parts)])]

\* what tb.PopLast() returns
PopLastReturned(wk) == IF wk.parts = <<>> THEN <<>> ELSE wk.parts[Len(wk.parts)]

\* tb.String()
BufString(wk) == Flatten(wk.parts)

\* tb.Reset()
Reset(wk) == [wk EXCEPT !.parts = <<>>, !.utf16Offset = 0]

(***************************************************************************)
(* internal/converter/walker.go: entity helpers                            *)
(***************************************************************************)
EntityScope(entityType, startOffset, node) ==
    [EntityType |-> entityType, StartOffset |-> startOffset, URL |-> <<>>,
     Language |-> <<>>, CustomEmojiID |-> <<>>, Node |-> node]

\* node is the AST node the scope is pushed for
pushEntity(wk, entityType, urlOrEmojiID, node) ==
    LET scope == EntityScope(entityType, wk.utf16Offset, node)
        filled == IF entityType = "text_link" THEN [scope EXCEPT !.URL = urlOrEmojiID]
                  ELSE IF entityType = "custom_emoji"
                      THEN [scope EXCEPT !.CustomEmojiID = urlOrEmojiID]
                  ELSE scope
    IN  [wk EXCEPT !.entityStack = Append(@, filled)]

\* faulty variant: an entity is emitted also for an empty range
finalizeEntityAlways(wk, scope) ==
    [wk EXCEPT !.entities = Append(@, [Type |-> scope.EntityType,
                                       Offset |-> scope.StartOffset,
                                       Length |-> wk.utf16Offset - scope.StartOffset,
                                       URL |-> scope.URL, Language |-> scope.Language,
                                       CustomEmojiID |-> scope.CustomEmojiID]),
               !.owners = Append(@, scope.Node)]

finalizeEntity(wk, scope) ==
    IF wk.utf16Offset - scope.StartOffset <= 0 THEN wk
    ELSE [wk EXCEPT !.entities = Append(@, [Type |-> scope.EntityType,
                                            Offset |-> scope.StartOffset,
                                            Length |-> wk.utf16Offset - scope.StartOffset,
                                            URL |-> scope.URL, Language |-> scope.Language,
                                            CustomEmojiID |-> scope.CustomEmojiID]),
                    !.owners = Append(@, scope.Node)]

\* the positions of the scopes of a type on the stack
ScopesOfType(stack, entityType) ==
    { i \in 1..Len(stack) : stack[i].EntityType = entityType }

\* faulty variant: the stack is cut at the scope, the scopes above it are lost
RemoveFrom(seq, i) == SubSeq(seq, 1, i - 1)

\* append(w.entityStack[:i], w.entityStack[i+1:]...)
RemoveAt(seq, i) == SubSeq(seq, 1, i - 1) \o SubSeq(seq, i + 1, Len(seq))

Maximum(S) == CHOOSE x \in S : \A y \in S : y <= x

Minimum(S) == CHOOSE x \in S : \A y \in S : x <= y

\* faulty variant: the search for the scope goes from the bottom of the stack
popEntityFromBottom(wk, entityType) ==
    IF ScopesOfType(wk.entityStack, entityType) = {} THEN wk
    ELSE finalizeEntity(
            [wk EXCEPT !.entityStack =
                RemoveAt(@, Minimum(ScopesOfType(wk.entityStack, entityType)))],
            wk.entityStack[Minimum(ScopesOfType(wk.entityStack, entityType))])

\* the topmost scope of the type is removed and finalized; none: nothing is done
popEntity(wk, entityType) ==
    IF ScopesOfType(wk.entityStack, entityType) = {} THEN wk
    ELSE finalizeEntity(
            [wk EXCEPT !.entityStack =
                RemoveAt(@, Maximum(ScopesOfType(wk.entityStack, entityType)))],
            wk.entityStack[Maximum(ScopesOfType(wk.entityStack, entityType))])

popEntityAny(wk) ==
    IF wk.entityStack = <<>> THEN wk
    ELSE finalizeEntity([wk EXCEPT !.entityStack = SubSeq(@, 1, Len(@) - 1)],
                        wk.entityStack[Len(wk.entityStack)])

\* strings.Repeat("\n", n)
Newlines(n) == [i \in 1..n |-> 10]

\* faulty variant: two newlines are written whatever the output ends with
ensureBlockSpacingAlways(wk) ==
    IF wk.blockCount > 0 THEN BufWrite(wk, Newlines(2)) ELSE wk

ensureBlockSpacing(wk) ==
    IF wk.blockCount > 0 /\ 2 - TrailingNewlineCount(wk) > 0
    THEN BufWrite(wk, Newlines(2 - TrailingNewlineCount(wk)))
    ELSE wk

(***************************************************************************)
(* internal/converter/walker.go: the handlers of Walk                      *)
(***************************************************************************)
\* the default symbols of the render configuration, as UTF-8
HeadingSymbol(level) ==
    IF level = 1 THEN <<240, 159, 147, 140>>
    ELSE IF level = 2 THEN <<240, 159, 147, 157>>
    ELSE IF level = 3 THEN <<240, 159, 147, 139>>
    ELSE IF level = 4 THEN <<240, 159, 147, 132>>
    ELSE IF level = 5 THEN <<240, 159, 147, 131>>
    ELSE <<240, 159, 148, 150>>

TaskCompleted == <<226, 156, 133>>

TaskUncompleted == <<226, 152, 145, 239, 184, 143>>

Bullet == <<226, 166, 129>>

\* strings.Repeat(" ", n)
Spaces(n) == [i \in 1..n |-> 32]

onText(wk, content, softBreak, hardBreak) ==
    LET textContent == content \o (IF softBreak THEN ChNL ELSE <<>>)
                               \o (IF hardBreak THEN ChNL ELSE <<>>)
    IN  IF wk.inTableCell
        THEN IF softBreak
             THEN [wk EXCEPT !.cellParts =
                      @ \o <<SubSeq(textContent, 1, Len(textContent) - 1), ChSP>>]
             ELSE [wk EXCEPT !.cellParts = Append(@, textContent)]
        ELSE BufWrite(wk, textContent)

\* node is the CodeSpan node
onInlineCode(wk, code, node) ==
    IF wk.inTableCell THEN [wk EXCEPT !.cellParts = Append(@, code)]
    ELSE LET written == BufWrite(wk, code)
         IN  IF written.utf16Offset - wk.utf16Offset > 0
             THEN [written EXCEPT
                      !.entities = Append(@, [Type |-> "code", Offset |-> wk.utf16Offset,
                                              Length |-> written.utf16Offset - wk.utf16Offset,
                                              URL |-> <<>>, Language |-> <<>>,
                                              CustomEmojiID |-> <<>>]),
                      !.owners = Append(@, node)]
             ELSE written

onStartParagraph(wk) == IF Len(wk.listStack) = 0 THEN ensureBlockSpacing(wk) ELSE wk

onEndParagraph(wk) ==
    IF Len(wk.listStack) = 0 THEN [wk EXCEPT !.blockCount = @ + 1]
    ELSE IF TrailingNewlineCount(wk) = 0 THEN BufWrite(wk, ChNL)
    ELSE wk

headingEntitiesMap(level) ==
    IF level \in {1, 2} THEN <<"bold", "underline">>
    ELSE IF level \in {3, 4} THEN <<"bold">>
    ELSE IF level \in {5, 6} THEN <<"italic">>
    ELSE <<"bold">>

RECURSIVE PushAll(_, _, _)
PushAll(wk, etypes, node) ==
    IF etypes = <<>> THEN wk
    ELSE PushAll(pushEntity(wk, Head(etypes), <<>>, node), Tail(etypes), node)

\* faulty variant: the heading scopes are pushed before the symbol is written
onStartHeadingPushFirst(wk, level, node) ==
    LET spaced == ensureBlockSpacing(wk)
        pushed == PushAll(spaced, headingEntitiesMap(level), node)
        symbol == BufWrite(pushed, HeadingSymbol(level) \o ChSP)
    IN  [symbol EXCEPT !.headingEntities = headingEntitiesMap(level), !.inHeading = TRUE]

onStartHeading(wk, level, node) ==
    LET spaced == ensureBlockSpacing(wk)
        symbol == IF HeadingSymbol(level) # <<>>
                  THEN BufWrite(spaced, HeadingSymbol(level) \o ChSP) ELSE spaced
        pushed == PushAll(symbol, headingEntitiesMap(level), node)
    IN  [pushed EXCEPT !.headingEntities = headingEntitiesMap(level), !.inHeading = TRUE]

\* the scopes of the heading are popped in reverse
RECURSIVE PopAllReverse(_, _)
PopAllReverse(wk, etypes) ==
    IF etypes = <<>> THEN wk
    ELSE PopAllReverse(popEntity(wk, etypes[Len(etypes)]),
                       SubSeq(etypes, 1, Len(etypes) - 1))

onEndHeading(wk) ==
    [PopAllReverse(wk, wk.headingEntities) EXCEPT
        !.headingEntities = <<>>, !.inHeading = FALSE, !.blockCount = @ + 1]

\* "tg://emoji?id="
EmojiPrefix == <<116, 103, 58, 47, 47, 101, 109, 111, 106, 105, 63, 105, 100, 61>>

HasPrefix(str, prefix) ==
    Len(str) >= Len(prefix) /\ SubSeq(str, 1, Len(prefix)) = prefix

isDigits(str) == \A k \in 1..Len(str) : str[k] >= 48 /\ str[k] <= 57

validateTelegramEmoji(url) ==
    IF ~HasPrefix(url, EmojiPrefix) THEN <<>>
    ELSE IF Len(url) - Len(EmojiPrefix) = 19
            /\ isDigits(SubSeq(url, Len(EmojiPrefix) + 1, Len(url)))
        THEN SubSeq(url, Len(EmojiPrefix) + 1, Len(url))
    ELSE <<>>

onStartLink(wk, destURL, node) ==
    IF validateTelegramEmoji(destURL) # <<>>
    THEN pushEntity(wk, "custom_emoji", validateTelegramEmoji(destURL), node)
    ELSE IF destURL # <<>> THEN pushEntity(wk, "text_link", destURL, node)
    ELSE wk

\* the list stack holds 0 for an unordered list and the next number for an ordered one
onStartList(wk, ordered, start) ==
    LET spaced == IF Len(wk.listStack) = 0 THEN ensureBlockSpacing(wk) ELSE wk
    IN  [spaced EXCEPT !.listStack = Append(@, [ordered |-> ordered,
                                                next |-> IF ordered THEN start ELSE 0])]

\* fmt.Sprintf("%d", num) for num >= 0
RECURSIVE Decimal(_)
Decimal(num) ==
    IF num < 10 THEN <<48 + num>> ELSE Decimal(num \div 10) \o <<48 + (num % 10)>>

\* faulty variant: one counter for all the open ordered lists
onStartItemOneCounter(wk) ==
    LET indent == Spaces(2 * (Len(wk.listStack) - 1))
        lined == IF ByteOffset(wk) > 0 /\ TrailingNewlineCount(wk) = 0
                 THEN BufWrite(wk, ChNL) ELSE wk
        current == wk.listStack[Len(wk.listStack)]
        marked == IF current.ordered
                  THEN [BufWrite(lined, indent \o Decimal(current.next) \o <<46, 32>>)
                           EXCEPT !.listStack = [i \in 1..Len(wk.listStack) |->
                               IF wk.listStack[i].ordered
                               THEN [wk.listStack[i] EXCEPT !.next = current.next + 1]
                               ELSE wk.listStack[i]]]
                  ELSE BufWrite(lined, indent \o Bullet \o ChSP)
    IN  [marked EXCEPT !.itemIndent = indent]

onStartItem(wk) ==
    LET indent == Spaces(2 * (Len(wk.listStack) - 1))
        lined == IF ByteOffset(wk) > 0 /\ TrailingNewlineCount(wk) = 0
                 THEN BufWrite(wk, ChNL) ELSE wk
        current == wk.listStack[Len(wk.listStack)]
        marked == IF current.ordered
                  THEN [BufWrite(lined, indent \o Decimal(current.next) \o <<46, 32>>)
                           EXCEPT !.listStack[Len(wk.listStack)].next = current.next + 1]
                  ELSE BufWrite(lined, indent \o Bullet \o ChSP)
    IN  [marked EXCEPT !.itemIndent = indent]

onEndItem(wk) == IF TrailingNewlineCount(wk) = 0 THEN BufWrite(wk, ChNL) ELSE wk

\* faulty variant: the prefix of the item is left in the buffer
onTaskCheckBoxKeepPrefix(wk, checked) ==
    BufWrite(wk, wk.itemIndent \o (IF checked THEN TaskCompleted ELSE TaskUncompleted) \o ChSP)

onTaskCheckBox(wk, checked) ==
    BufWrite(PopLast(wk),
             wk.itemIndent \o (IF checked THEN TaskCompleted ELSE TaskUncompleted) \o ChSP)

onEndList(wk) ==
    LET popped == IF Len(wk.listStack) > 0
                  THEN [wk EXCEPT !.listStack = SubSeq(@, 1, Len(@) - 1)] ELSE wk
    IN  IF Len(popped.listStack) = 0 THEN [popped EXCEPT !.blockCount = @ + 1] ELSE popped

\* strings.Join(strs, sep)
RECURSIVE Join(_, _)
Join(strs, sep) ==
    IF strs = <<>> THEN <<>>
    ELSE IF Len(strs) = 1 THEN strs[1]
    ELSE strs[1] \o sep \o Join(Tail(strs), sep)

onStartTable(wk) == [ensureBlockSpacing(wk) EXCEPT !.inTable = TRUE, !.tableRows = <<>>]

onEndTableCell(wk) ==
    [wk EXCEPT !.currentRow = Append(@, Flatten(wk.cellParts)),
               !.cellParts = <<>>, !.inTableCell = FALSE]

onEndTableRow(wk) ==
    [wk EXCEPT !.tableRows = Append(@, wk.currentRow), !.currentRow = <<>>]

\* strings.Repeat("-", n)
Dashes(n) == [i \in 1..n |-> 45]

formatTable(rows) ==
    IF Len(rows) = 0 THEN <<>>
    ELSE LET numCols == Maximum({ Len(rows[r]) : r \in 1..Len(rows) })
             colWidths == [i \in 1..numCols |->
                 Maximum({0} \cup { Len(rows[r][i]) : r \in { q \in 1..Len(rows) : i <= Len(rows[q]) } })]
             cells(r) == [i \in 1..numCols |->
                 LET cell == IF i <= Len(rows[r]) THEN rows[r][i] ELSE <<>>
                 IN  cell \o Spaces(colWidths[i] - Len(cell))]
             sepCells == [i \in 1..numCols |-> Dashes(colWidths[i])]
             linesOf(r) ==
                 IF r = 1 /\ Len(rows) > 1
                 THEN <<Join(cells(r), <<32, 124, 32>>), Join(sepCells, <<45, 43, 45>>)>>
                 ELSE <<Join(cells(r), <<32, 124, 32>>)>>
         IN  Join(Flatten([r \in 1..Len(rows) |-> linesOf(r)]), ChNL)

\* node is the Table node
onEndTable(wk, node) ==
    LET written == BufWrite(wk, formatTable(wk.tableRows))
        emitted == IF written.utf16Offset - wk.utf16Offset > 0
                   THEN [written EXCEPT
                            !.entities = Append(@, [Type |-> "pre", Offset |-> wk.utf16Offset,
                                                    Length |-> written.utf16Offset - wk.utf16Offset,
                                                    URL |-> <<>>, Language |-> <<>>,
                                                    CustomEmojiID |-> <<>>]),
                            !.owners = Append(@, node)]
                   ELSE written
    IN  [emitted EXCEPT !.inTable = FALSE, !.tableRows = <<>>, !.blockCount = @ + 1]

\* faulty variant: every trailing newline is stripped
StripTrailingNewlines(rawCode) ==
    SubSeq(rawCode, 1, Len(rawCode) - PartTrailing(rawCode).count)

\* if strings.HasSuffix(rawCode, "\n") { rawCode = rawCode[:len(rawCode)-1] }
StripTrailingNewline(rawCode) ==
    IF rawCode # <<>> /\ rawCode[Len(rawCode)] = 10
    THEN SubSeq(rawCode, 1, Len(rawCode) - 1) ELSE rawCode

\* strings.Split(s, ",")[0]
BeforeComma(s) ==
    IF \E i \in 1..Len(s) : s[i] = 44
    THEN SubSeq(s, 1, Minimum({ i \in 1..Len(s) : s[i] = 44 }) - 1)
    ELSE s

\* strings.ToLower on ASCII letters
ToLower(s) == [i \in 1..Len(s) |-> IF s[i] >= 65 /\ s[i] <= 90 THEN s[i] + 32 ELSE s[i]]

Mermaid == <<109, 101, 114, 109, 97, 105, 100>>

\* faulty variant: the start of the segment is taken before the block spacing
onEndCodeBlockStartFirst(wk, codeBlockLang, codeBlockParts, node) ==
    LET rawCode == StripTrailingNewline(Flatten(codeBlockParts))
        spaced == ensureBlockSpacing(wk)
        written == BufWrite(spaced, rawCode)
        length == written.utf16Offset - spaced.utf16Offset
        lang == StringsTrimSpace(BeforeComma(codeBlockLang))
        emitted == IF length > 0
                   THEN [written EXCEPT
                            !.entities = Append(@, [Type |-> "pre", Offset |-> spaced.utf16Offset,
                                                    Length |-> length, URL |-> <<>>,
                                                    Language |-> lang, CustomEmojiID |-> <<>>]),
                            !.owners = Append(@, node)]
                   ELSE written
    IN  [emitted EXCEPT
            !.segments = Append(@, [Kind |-> IF ToLower(lang) = Mermaid
                                             THEN "mermaid" ELSE "code_block",
                                    TextStart |-> ByteOffset(wk),
                                    TextEnd |-> ByteOffset(written),
                                    UTF16Start |-> wk.utf16Offset,
                                    UTF16End |-> written.utf16Offset,
                                    Language |-> lang, RawCode |-> rawCode]),
            !.blockCount = @ + 1]

\* codeBlockLang and codeBlockParts are set by onStartCodeBlock and cleared here
onEndCodeBlock(wk, codeBlockLang, codeBlockParts, node) ==
    LET rawCode == StripTrailingNewline(Flatten(codeBlockParts))
        spaced == ensureBlockSpacing(wk)
        written == BufWrite(spaced, rawCode)
        length == written.utf16Offset - spaced.utf16Offset
        lang == StringsTrimSpace(BeforeComma(codeBlockLang))
        emitted == IF length > 0
                   THEN [written EXCEPT
                            !.entities = Append(@, [Type |-> "pre", Offset |-> spaced.utf16Offset,
                                                    Length |-> length, URL |-> <<>>,
                                                    Language |-> lang, CustomEmojiID |-> <<>>]),
                            !.owners = Append(@, node)]
                   ELSE written
    IN  [emitted EXCEPT
            !.segments = Append(@, [Kind |-> IF ToLower(lang) = Mermaid
                                             THEN "mermaid" ELSE "code_block",
                                    TextStart |-> ByteOffset(spaced),
                                    TextEnd |-> ByteOffset(written),
                                    UTF16Start |-> spaced.utf16Offset,
                                    UTF16End |-> written.utf16Offset,
                                    Language |-> lang, RawCode |-> rawCode]),
            !.blockCount = @ + 1]

\* language is the fence's language annotation, empty for an indented block; lines are
\* the source lines of the block
onStartCodeBlock(wk, language, lines, node) == onEndCodeBlock(wk, language, lines, node)

(***************************************************************************)
(* ast.Walk over a document: the nodes are entered and exited in document  *)
(* order; open holds the nodes entered and not yet exited, spans the nodes *)
(* exited, with the offsets of the plain text at their enter and exit.     *)
(***************************************************************************)
\* the contents of a Text node: a character of two UTF-16 units, and a letter before a
\* soft line break
TextNodes ==
    { [Segment |-> <<240, 159, 152, 128>>, SoftLineBreak |-> FALSE],
      [Segment |-> ChA, SoftLineBreak |-> TRUE] }

Digits(n) == [i \in 1..n |-> 48 + (i % 10)]

\* link destinations: none, an emoji id of 19 digits, and a URL that is none, of 18
\* digits
Destinations == { <<>>, EmojiPrefix \o Digits(19), EmojiPrefix \o Digits(18) }

Top == open[Len(open)]

KindsOpen == { open[k].Kind : k \in 1..Len(open) }

NodesOpen == { open[k].Node : k \in 1..Len(open) }

\* the nodes that hold inline children
InlineContainers ==
    {"Paragraph", "Heading", "ListItem", "TableCell", "Emphasis", "Link", "Image",
     "Strikethrough"}

\* the nodes that only hold other nodes; they hold one at least
Containers == {"Paragraph", "List", "Table", "TableRow"}

\* the nodes walked so far, the containers apart
Counted ==
    walked - Cardinality({ k \in 1..Len(open) : open[k].Kind \in Containers })
           - Cardinality({ k \in 1..Len(spans) : spans[k].Kind \in Containers })

CanEnterInline == Counted < MaxNodes /\ open # <<>> /\ Top.Kind \in InlineContainers

\* block nodes stand in the document or in a list item
CanEnterBlock ==
    Counted < MaxNodes /\ (IF open = <<>> THEN TRUE ELSE Top.Kind \in {"ListItem", "Blockquote"})

\* the parent has a child now
WithChild == IF open = <<>> THEN open ELSE [open EXCEPT ![Len(open)].Fresh = FALSE]

OpenNode(kind, level, dest, entered) ==
    [Kind |-> kind, Node |-> walked + 1, Level |-> level, Dest |-> dest,
     Start |-> w.utf16Offset, StartByte |-> ByteOffset(w),
     From |-> entered.utf16Offset,
     FromByte |-> ByteOffset(entered), Fresh |-> TRUE,
     First |-> (open # <<>> /\ Top.Fresh)]

Enter(kind, level, dest, entered) ==
    /\ w' = entered
    /\ open' = Append(WithChild, OpenNode(kind, level, dest, entered))
    /\ walked' = walked + 1
    /\ UNCHANGED <<pc, spans, splitVars, trimVars, pipeVars, utfVars, bufVars, goVars>>

Leaf(entered) ==
    /\ w' = entered
    /\ open' = WithChild
    /\ walked' = walked + 1
    /\ UNCHANGED <<pc, spans, splitVars, trimVars, pipeVars, utfVars, bufVars, goVars>>

Exit(kind, exited) ==
    /\ open # <<>>
    /\ Top.Kind = kind
    /\ w' = exited
    /\ open' = SubSeq(open, 1, Len(open) - 1)
    /\ spans' = Append(spans, [Kind |-> Top.Kind, Node |-> Top.Node, Level |-> Top.Level,
                               Dest |-> Top.Dest, Start |-> Top.Start, From |-> Top.From,
                               FromByte |-> Top.FromByte,
                               To |-> w.utf16Offset, End |-> exited.utf16Offset,
                               Emitted |-> { k \in 1..Len(exited.entities) :
                                                k > Len(w.entities) },
                               Ancestors |-> NodesOpen \ {Top.Node}])
    /\ UNCHANGED <<pc, walked, splitVars, trimVars, pipeVars, utfVars, bufVars, goVars>>

\* the walk over block and inline nodes, and the walk over the inline nodes that push
\* scopes
Walking == pc \in {"walk", "inline", "quote", "list", "code", "table"}

\* the levels of the headings: all of them, and in the walk over the inline nodes one
\* level with two scopes and one with one
HeadingLevels == IF pc = "walk" THEN 1..6 ELSE {1, 5}

InitWalk ==
    /\ pc = "walk"
    /\ w = NewEventWalker
    /\ open = <<>>
    /\ spans = <<>>
    /\ walked = 0
    /\ tb = New
    /\ calls = <<>>
    /\ defaultConfig = Nil
    /\ defaultConfigOnce = NotDone
    /\ goroutines = <<>>
    /\ text = <<>> /\ entities = <<>> /\ maxUTF16Len = 0 /\ byteStart = 0
    /\ chunksRanges = <<>> /\ result = <<>>
    /\ stripped = <<>> /\ adjusted = <<>>
    /\ fullText = <<>> /\ fullEntities = <<>> /\ segments = <<>>
    /\ maxMessageLength = 0 /\ renderOK = <<>>
    /\ codePoints = <<>> /\ counts = NotCalled

WalkText ==
    /\ Walking /\ CanEnterInline
    /\ \E n \in TextNodes : Leaf(onText(w, n.Segment, n.SoftLineBreak, FALSE))

WalkCodeSpan ==
    /\ pc \in {"walk", "table"} /\ CanEnterInline
    /\ Leaf(onInlineCode(w, <<99>>, walked + 1))

EnterEmphasis ==
    /\ Walking /\ CanEnterInline
    /\ \E level \in {1, 2} :
          Enter("Emphasis", level, <<>>,
                pushEntity(w, IF level = 2 THEN "bold" ELSE "italic", <<>>, walked + 1))

ExitEmphasis ==
    /\ Walking
    /\ Exit("Emphasis", popEntity(w, IF Top.Level = 2 THEN "bold" ELSE "italic"))

\* a link holds no link
EnterLink ==
    /\ Walking /\ CanEnterInline /\ "Link" \notin KindsOpen
    /\ \E dest \in Destinations : Enter("Link", 0, dest, onStartLink(w, dest, walked + 1))

ExitLink ==
    /\ Walking
    /\ Exit("Link", popEntity(w, "text_link"))

EnterParagraph ==
    /\ Walking /\ CanEnterBlock
    /\ Enter("Paragraph", 0, <<>>, onStartParagraph(w))

ExitParagraph ==
    /\ Walking /\ open # <<>> /\ ~Top.Fresh
    /\ Exit("Paragraph", onEndParagraph(w))

EnterHeading ==
    /\ Walking /\ Counted < MaxNodes /\ open = <<>>
    /\ \E level \in HeadingLevels :
          Enter("Heading", level, <<>>, onStartHeading(w, level, walked + 1))

ExitHeading ==
    /\ Walking
    /\ Exit("Heading", onEndHeading(w))

\* the start numbers of the ordered lists: 1, and in the walk over lists also 0 and a
\* start whose second item has two digits
ListStarts == IF pc = "walk" THEN {1} ELSE {0, 1, 9}

\* the Level of a List node is its start number, -1 for an unordered list
EnterList ==
    /\ pc \in {"walk", "list"} /\ CanEnterBlock
    /\ \/ \E start \in ListStarts : Enter("List", start, <<>>, onStartList(w, TRUE, start))
       \/ Enter("List", 0 - 1, <<>>, onStartList(w, FALSE, 0))

ExitList ==
    /\ pc \in {"walk", "list"} /\ open # <<>> /\ ~Top.Fresh
    /\ Exit("List", onEndList(w))

EnterListItem ==
    /\ pc \in {"walk", "list"} /\ Counted < MaxNodes /\ open # <<>> /\ Top.Kind = "List"
    /\ Enter("ListItem", 0, <<>>, onStartItem(w))

ExitListItem ==
    /\ pc \in {"walk", "list"}
    /\ Exit("ListItem", onEndItem(w))

\* the checkbox is the first inline node of the item, in the item or in its first
\* paragraph
WalkTaskCheckBox ==
    /\ pc \in {"walk", "list"} /\ Counted < MaxNodes /\ open # <<>> /\ Top.Fresh
    /\ IF Top.Kind = "Paragraph"
       THEN Top.First /\ Len(open) >= 2 /\ open[Len(open) - 1].Kind = "ListItem"
       ELSE Top.Kind = "ListItem"
    /\ \E checked \in BOOLEAN : Leaf(onTaskCheckBox(w, checked))

EnterTable ==
    /\ pc \in {"walk", "table"} /\ Counted < MaxNodes /\ open = <<>>
    /\ Enter("Table", 0, <<>>, onStartTable(w))

ExitTable ==
    /\ pc \in {"walk", "table"} /\ open # <<>> /\ ~Top.Fresh
    /\ Exit("Table", onEndTable(w, Top.Node))

\* the header and the rows
EnterTableRow ==
    /\ pc \in {"walk", "table"} /\ Counted < MaxNodes /\ open # <<>> /\ Top.Kind = "Table"
    /\ Enter("TableRow", 0, <<>>, [w EXCEPT !.currentRow = <<>>])

ExitTableRow ==
    /\ pc \in {"walk", "table"} /\ open # <<>> /\ ~Top.Fresh
    /\ Exit("TableRow", onEndTableRow(w))

EnterTableCell ==
    /\ pc \in {"walk", "table"} /\ Counted < MaxNodes /\ open # <<>> /\ Top.Kind = "TableRow"
    /\ Enter("TableCell", 0, <<>>, [w EXCEPT !.cellParts = <<>>, !.inTableCell = TRUE])

ExitTableCell ==
    /\ pc \in {"walk", "table"}
    /\ Exit("TableCell", onEndTableCell(w))

NextWalk ==
    \/ WalkText \/ WalkCodeSpan \/ EnterEmphasis \/ ExitEmphasis \/ EnterLink \/ ExitLink
    \/ EnterParagraph \/ ExitParagraph \/ EnterHeading \/ ExitHeading
    \/ EnterList \/ ExitList \/ EnterListItem \/ ExitListItem \/ WalkTaskCheckBox
    \/ EnterTable \/ ExitTable \/ EnterTableRow \/ ExitTableRow
    \/ EnterTableCell \/ ExitTableCell

SpecWalk == InitWalk /\ [][NextWalk]_vars

(***************************************************************************)
(* The walk over lists: ordered lists with several start numbers and       *)
(* unordered lists, nested in items, with text and task checkboxes.        *)
(***************************************************************************)
InitList ==
    /\ pc = "list"
    /\ w = NewEventWalker
    /\ open = <<>>
    /\ spans = <<>>
    /\ walked = 0
    /\ tb = New
    /\ calls = <<>>
    /\ defaultConfig = Nil
    /\ defaultConfigOnce = NotDone
    /\ goroutines = <<>>
    /\ text = <<>> /\ entities = <<>> /\ maxUTF16Len = 0 /\ byteStart = 0
    /\ chunksRanges = <<>> /\ result = <<>>
    /\ stripped = <<>> /\ adjusted = <<>>
    /\ fullText = <<>> /\ fullEntities = <<>> /\ segments = <<>>
    /\ maxMessageLength = 0 /\ renderOK = <<>>
    /\ codePoints = <<>> /\ counts = NotCalled

NextList ==
    \/ EnterList \/ ExitList \/ EnterListItem \/ ExitListItem \/ WalkTaskCheckBox
    \/ WalkText \/ EnterParagraph \/ ExitParagraph

SpecList == InitList /\ [][NextList]_vars

(***************************************************************************)
(* The walk over code blocks and the paragraphs between them.              *)
(***************************************************************************)
\* the source lines of a code block: none, an empty line, a line, a line of four bytes
\* and an empty line, a last line with no newline
BlockLines ==
    { <<>>, <<ChNL>>, <<ChA \o ChNL>>, <<ChE4 \o ChNL, ChNL>>, <<ChA \o ChNL, ChA>> }

\* the language annotations: none, "go, x", "Mermaid"
CodeLanguages ==
    { <<>>, <<103, 111, 32, 44, 120>>, <<77, 101, 114, 109, 97, 105, 100>> }

InitCode ==
    /\ pc = "code"
    /\ w = NewEventWalker
    /\ open = <<>>
    /\ spans = <<>>
    /\ walked = 0
    /\ tb = New
    /\ calls = <<>>
    /\ defaultConfig = Nil
    /\ defaultConfigOnce = NotDone
    /\ goroutines = <<>>
    /\ text = <<>> /\ entities = <<>> /\ maxUTF16Len = 0 /\ byteStart = 0
    /\ chunksRanges = <<>> /\ result = <<>>
    /\ stripped = <<>> /\ adjusted = <<>>
    /\ fullText = <<>> /\ fullEntities = <<>> /\ segments = <<>>
    /\ maxMessageLength = 0 /\ renderOK = <<>>
    /\ codePoints = <<>> /\ counts = NotCalled

\* the code block is entered, its children are skipped; spans records its lines and
\* language with the offsets before and after
WalkCodeBlock ==
    /\ pc = "code" /\ CanEnterBlock
    /\ \E language \in CodeLanguages, lines \in BlockLines :
          LET walkedBlock == onStartCodeBlock(w, language, lines, walked + 1)
          IN  /\ w' = walkedBlock
              /\ spans' = Append(spans,
                    [Kind |-> "FencedCodeBlock", Node |-> walked + 1, Level |-> 0,
                     Dest |-> language, Lines |-> lines,
                     Start |-> w.utf16Offset, From |-> w.utf16Offset,
                     FromByte |-> ByteOffset(w),
                     To |-> walkedBlock.utf16Offset, End |-> walkedBlock.utf16Offset,
                     Emitted |-> { k \in 1..Len(walkedBlock.entities) : k > Len(w.entities) },
                     Ancestors |-> NodesOpen])
    /\ open' = WithChild
    /\ walked' = walked + 1
    /\ UNCHANGED <<pc, splitVars, trimVars, pipeVars, utfVars, bufVars, goVars>>

NextCode ==
    \/ WalkCodeBlock \/ EnterParagraph \/ ExitParagraph \/ WalkText

SpecCode == InitCode /\ [][NextCode]_vars

(***************************************************************************)
(* The walk over the inline nodes that push scopes: Emphasis,              *)
(* Strikethrough, Link, Image, AutoLink and RawHTML, in paragraphs and     *)
(* headings.                                                               *)
(***************************************************************************)
\* MarkdownSymbol.Image of the default configuration
ImageSymbol == <<240, 159, 150, 188>>

onStartImage(wk, destURL, node) ==
    IF validateTelegramEmoji(destURL) # <<>>
    THEN pushEntity(wk, "custom_emoji", validateTelegramEmoji(destURL), node)
    ELSE pushEntity(BufWrite(wk, ImageSymbol), "text_link", destURL, node)

\* the AutoLink case of Walk, entering; the children are skipped
onAutoLink(wk, url, node) == BufWrite(pushEntity(wk, "text_link", url, node), url)

\* the tags are in lower case, without space around them
onInlineHTML(wk, tag, node) ==
    IF tag = "<tg-spoiler>" THEN pushEntity(wk, "spoiler", <<>>, node)
    ELSE IF tag = "</tg-spoiler>" THEN popEntity(wk, "spoiler")
    ELSE wk

\* "u:a", the URL of the autolinks
AutoLinkURL == <<117, 58, 97>>

\* the destinations of images: a URL and an emoji id
ImageDestinations == { <<117>>, EmojiPrefix \o Digits(19) }

InitInline ==
    /\ pc = "inline"
    /\ w = NewEventWalker
    /\ open = <<>>
    /\ spans = <<>>
    /\ walked = 0
    /\ tb = New
    /\ calls = <<>>
    /\ defaultConfig = Nil
    /\ defaultConfigOnce = NotDone
    /\ goroutines = <<>>
    /\ text = <<>> /\ entities = <<>> /\ maxUTF16Len = 0 /\ byteStart = 0
    /\ chunksRanges = <<>> /\ result = <<>>
    /\ stripped = <<>> /\ adjusted = <<>>
    /\ fullText = <<>> /\ fullEntities = <<>> /\ segments = <<>>
    /\ maxMessageLength = 0 /\ renderOK = <<>>
    /\ codePoints = <<>> /\ counts = NotCalled

EnterImage ==
    /\ pc \in {"inline", "table"} /\ CanEnterInline
    /\ \E dest \in ImageDestinations : Enter("Image", 0, dest, onStartImage(w, dest, walked + 1))

ExitImage ==
    /\ pc \in {"inline", "table"}
    /\ Exit("Image", popEntityAny(w))

\* an autolink is a link: a link holds none
EnterAutoLink ==
    /\ pc \in {"inline", "table"} /\ CanEnterInline /\ "Link" \notin KindsOpen
    /\ Enter("AutoLink", 0, AutoLinkURL, onAutoLink(w, AutoLinkURL, walked + 1))

\* Walk does nothing when an AutoLink is exited
ExitAutoLink ==
    /\ pc \in {"inline", "table"}
    /\ Exit("AutoLink", w)

EnterStrikethrough ==
    /\ pc = "inline" /\ CanEnterInline
    /\ Enter("Strikethrough", 0, <<>>, pushEntity(w, "strikethrough", <<>>, walked + 1))

ExitStrikethrough ==
    /\ pc = "inline"
    /\ Exit("Strikethrough", popEntity(w, "strikethrough"))

WalkRawHTML ==
    /\ pc = "inline" /\ CanEnterInline
    /\ \E tag \in {"<tg-spoiler>", "</tg-spoiler>", "<br>"} :
          Leaf(onInlineHTML(w, tag, walked + 1))

NextInline ==
    \/ WalkText \/ EnterEmphasis \/ ExitEmphasis \/ EnterLink \/ ExitLink
    \/ EnterParagraph \/ ExitParagraph \/ EnterHeading \/ ExitHeading
    \/ EnterImage \/ ExitImage \/ EnterAutoLink \/ ExitAutoLink
    \/ EnterStrikethrough \/ ExitStrikethrough \/ WalkRawHTML

SpecInline == InitInline /\ [][NextInline]_vars

(***************************************************************************)
(* The walk over tables whose cells hold text, code spans, images and      *)
(* autolinks.                                                              *)
(***************************************************************************)
InitTable ==
    /\ pc = "table"
    /\ w = NewEventWalker
    /\ open = <<>>
    /\ spans = <<>>
    /\ walked = 0
    /\ tb = New
    /\ calls = <<>>
    /\ defaultConfig = Nil
    /\ defaultConfigOnce = NotDone
    /\ goroutines = <<>>
    /\ text = <<>> /\ entities = <<>> /\ maxUTF16Len = 0 /\ byteStart = 0
    /\ chunksRanges = <<>> /\ result = <<>>
    /\ stripped = <<>> /\ adjusted = <<>>
    /\ fullText = <<>> /\ fullEntities = <<>> /\ segments = <<>>
    /\ maxMessageLength = 0 /\ renderOK = <<>>
    /\ codePoints = <<>> /\ counts = NotCalled

NextTable ==
    \/ EnterTable \/ ExitTable \/ EnterTableRow \/ ExitTableRow
    \/ EnterTableCell \/ ExitTableCell
    \/ WalkText \/ WalkCodeSpan \/ EnterImage \/ ExitImage \/ EnterAutoLink \/ ExitAutoLink

SpecTable == InitTable /\ [][NextTable]_vars

(***************************************************************************)
(* The walk over blockquotes, and the exit of the Document node            *)
(***************************************************************************)
ExpandableThreshold == 200

onStartBlockquote(wk) ==
    [ensureBlockSpacing(wk) EXCEPT
        !.blockquoteScopes =
            Append(@, [EntityType |-> "blockquote",
                       StartOffset |-> ensureBlockSpacing(wk).utf16Offset])]

\* node is the Blockquote node
onEndBlockquote(wk, node) ==
    LET scope == wk.blockquoteScopes[Len(wk.blockquoteScopes)]
        popped == [wk EXCEPT !.blockquoteScopes = SubSeq(@, 1, Len(@) - 1)]
        emitted == IF wk.utf16Offset - scope.StartOffset > 0
                   THEN [popped EXCEPT
                            !.entities = Append(@, [Type |-> "blockquote",
                                                    Offset |-> scope.StartOffset,
                                                    Length |-> wk.utf16Offset - scope.StartOffset,
                                                    URL |-> <<>>, Language |-> <<>>,
                                                    CustomEmojiID |-> <<>>]),
                            !.owners = Append(@, node)]
                   ELSE popped
    IN  IF Len(wk.blockquoteScopes) > 0
        THEN [emitted EXCEPT !.blockCount = @ + 1]
        ELSE [wk EXCEPT !.blockCount = @ + 1]

\* faulty variant: a blockquote of the threshold length is promoted as well
onExitDocumentFromThreshold(wk) ==
    IF wk.CiteExpandable
    THEN [wk EXCEPT !.entities =
            [i \in 1..Len(wk.entities) |->
                IF wk.entities[i].Type = "blockquote"
                   /\ wk.entities[i].Length >= ExpandableThreshold
                THEN [wk.entities[i] EXCEPT !.Type = "expandable_blockquote"]
                ELSE wk.entities[i]]]
    ELSE wk

\* the Document case of Walk, exiting
onExitDocument(wk) ==
    IF wk.CiteExpandable
    THEN [wk EXCEPT !.entities =
            [i \in 1..Len(wk.entities) |->
                IF wk.entities[i].Type = "blockquote"
                   /\ wk.entities[i].Length > ExpandableThreshold
                THEN [wk.entities[i] EXCEPT !.Type = "expandable_blockquote"]
                ELSE wk.entities[i]]]
    ELSE wk

\* strings.Repeat of a character of two UTF-16 units
Emojis(n) == [i \in 1..(4 * n) |-> <<240, 159, 152, 128>>[((i - 1) % 4) + 1]]

\* the texts of the quotes: of half the threshold length, and one unit longer
QuoteTexts == { Emojis(ExpandableThreshold \div 4), Emojis(ExpandableThreshold \div 4) \o ChA }

InitQuote ==
    /\ pc = "quote"
    /\ \E enabled \in BOOLEAN : w = [NewEventWalker EXCEPT !.CiteExpandable = enabled]
    /\ open = <<>>
    /\ spans = <<>>
    /\ walked = 0
    /\ tb = New
    /\ calls = <<>>
    /\ defaultConfig = Nil
    /\ defaultConfigOnce = NotDone
    /\ goroutines = <<>>
    /\ text = <<>> /\ entities = <<>> /\ maxUTF16Len = 0 /\ byteStart = 0
    /\ chunksRanges = <<>> /\ result = <<>>
    /\ stripped = <<>> /\ adjusted = <<>>
    /\ fullText = <<>> /\ fullEntities = <<>> /\ segments = <<>>
    /\ maxMessageLength = 0 /\ renderOK = <<>>
    /\ codePoints = <<>> /\ counts = NotCalled

EnterBlockquote ==
    /\ pc = "quote" /\ Counted < MaxNodes
    /\ IF open = <<>> THEN TRUE ELSE Top.Kind = "Blockquote"
    /\ Enter("Blockquote", 0, <<>>, onStartBlockquote(w))

ExitBlockquote ==
    /\ pc = "quote" /\ open # <<>>
    /\ Exit("Blockquote", onEndBlockquote(w, Top.Node))

WalkQuoteText ==
    /\ pc = "quote" /\ CanEnterInline
    /\ \E content \in QuoteTexts : Leaf(onText(w, content, FALSE, FALSE))

\* the Document node is exited when every node in it has been
ExitDocument ==
    /\ pc = "quote" /\ open = <<>>
    /\ w' = onExitDocument(w)
    /\ pc' = "converted"
    /\ UNCHANGED <<open, spans, walked, splitVars, trimVars, pipeVars, utfVars, bufVars, goVars>>

NextQuote ==
    \/ EnterBlockquote \/ ExitBlockquote \/ EnterParagraph \/ ExitParagraph
    \/ EnterEmphasis \/ ExitEmphasis \/ WalkQuoteText \/ ExitDocument

SpecQuote == InitQuote /\ [][NextQuote]_vars

(***************************************************************************)
(* Concurrent conversions with a nil config: config.go's DefaultConfig     *)
(* behind a sync.Once, then parser.Parse with a walker of its own.         *)
(***************************************************************************)
\* types.DefaultRenderConfig(): the default symbols, CiteExpandable true
DefaultRenderConfig == [MarkdownSymbol |-> "DefaultSymbol", CiteExpandable |-> TRUE]

\* the documents converted, as the calls of Walk in document order: a heading, a
\* paragraph with a bold run, a quote
Documents ==
    { << [enter |-> "Heading", level |-> 1], [enter |-> "Text"], [exit |-> "Heading"],
         [exit |-> "Document"] >>,
      << [enter |-> "Paragraph"], [enter |-> "Emphasis", level |-> 2], [enter |-> "Text"],
         [exit |-> "Emphasis", level |-> 2], [exit |-> "Paragraph"], [exit |-> "Document"] >>,
      << [enter |-> "Blockquote"], [enter |-> "Paragraph"], [enter |-> "Text"],
         [exit |-> "Paragraph"], [exit |-> "Blockquote"], [exit |-> "Document"] >> }

\* the calls of Walk that read w.config
ReadsConfig(event) ==
    IF "enter" \in DOMAIN event THEN event.enter = "Heading" ELSE event.exit = "Document"

\* one call of Walk; node identifies the node of the call
WalkCall(wk, event, node) ==
    IF "enter" \in DOMAIN event
    THEN IF event.enter = "Heading" THEN onStartHeading(wk, event.level, node)
         ELSE IF event.enter = "Paragraph" THEN onStartParagraph(wk)
         ELSE IF event.enter = "Blockquote" THEN onStartBlockquote(wk)
         ELSE IF event.enter = "Emphasis"
             THEN pushEntity(wk, IF event.level = 2 THEN "bold" ELSE "italic", <<>>, node)
         ELSE onText(wk, <<240, 159, 152, 128>>, FALSE, FALSE)
    ELSE IF event.exit = "Heading" THEN onEndHeading(wk)
         ELSE IF event.exit = "Paragraph" THEN onEndParagraph(wk)
         ELSE IF event.exit = "Blockquote" THEN onEndBlockquote(wk, node)
         ELSE IF event.exit = "Emphasis"
             THEN popEntity(wk, IF event.level = 2 THEN "bold" ELSE "italic")
         ELSE onExitDocument(wk)

\* walker.Result(), the segments apart
Result(wk) == [text |-> BufString(wk), entities |-> wk.entities]

\* the conversion of a document by one call running alone
RECURSIVE WalkFrom(_, _, _)
WalkFrom(wk, document, at) ==
    IF at > Len(document) THEN wk
    ELSE WalkFrom(WalkCall(wk, document[at], at), document, at + 1)

ConvertAlone(document) == Result(WalkFrom(NewEventWalker, document, 1))

\* faulty variant: Do returns at once also while another call runs the function
OnceFastPathOrBusy(once) == once.done \/ once.m # 0

\* sync.Once.Do: the function was run, nothing is left to do
OnceFastPath(once) == once.done

InitConcurrent ==
    /\ pc = "concurrent"
    /\ defaultConfig = Nil
    /\ defaultConfigOnce = NotDone
    /\ goroutines \in [1..NumGoroutines ->
                          { [pc |-> "call", markdown |-> d, config |-> Nil, at |-> 1,
                             w |-> NewEventWalker, result |-> <<>>] : d \in Documents }]
    /\ w = NewEventWalker
    /\ open = <<>>
    /\ spans = <<>>
    /\ walked = 0
    /\ tb = New
    /\ calls = <<>>
    /\ text = <<>> /\ entities = <<>> /\ maxUTF16Len = 0 /\ byteStart = 0
    /\ chunksRanges = <<>> /\ result = <<>>
    /\ stripped = <<>> /\ adjusted = <<>>
    /\ fullText = <<>> /\ fullEntities = <<>> /\ segments = <<>>
    /\ maxMessageLength = 0 /\ renderOK = <<>>
    /\ codePoints = <<>> /\ counts = NotCalled

\* what a step of a goroutine leaves alone
GoFrame == UNCHANGED <<pc, splitVars, trimVars, pipeVars, utfVars, walkVars, bufVars>>

\* ConvertWithSegments: config == nil, DefaultConfig() is called; Do loads done
OnceLoad(g) ==
    /\ pc = "concurrent" /\ goroutines[g].pc = "call"
    /\ goroutines' = [goroutines EXCEPT
          ![g].pc = IF OnceFastPath(defaultConfigOnce) THEN "return" ELSE "lock"]
    /\ UNCHANGED <<defaultConfig, defaultConfigOnce>>
    /\ GoFrame

\* doSlow: o.m.Lock()
OnceLock(g) ==
    /\ pc = "concurrent" /\ goroutines[g].pc = "lock"
    /\ defaultConfigOnce.m = 0
    /\ defaultConfigOnce' = [defaultConfigOnce EXCEPT !.m = g]
    /\ goroutines' = [goroutines EXCEPT ![g].pc = "locked"]
    /\ UNCHANGED defaultConfig
    /\ GoFrame

\* doSlow: done is loaded again; the function sets defaultConfig
OnceRun(g) ==
    /\ pc = "concurrent" /\ goroutines[g].pc = "locked"
    /\ IF defaultConfigOnce.done
       THEN /\ goroutines' = [goroutines EXCEPT ![g].pc = "unlock"]
            /\ UNCHANGED defaultConfig
       ELSE /\ defaultConfig' = [set |-> TRUE, stores |-> defaultConfig.stores + 1,
                                 value |-> DefaultRenderConfig]
            /\ goroutines' = [goroutines EXCEPT ![g].pc = "store"]
    /\ UNCHANGED defaultConfigOnce
    /\ GoFrame

\* doSlow: the deferred o.done.Store(1)
OnceStore(g) ==
    /\ pc = "concurrent" /\ goroutines[g].pc = "store"
    /\ defaultConfigOnce' = [defaultConfigOnce EXCEPT !.done = TRUE]
    /\ goroutines' = [goroutines EXCEPT ![g].pc = "unlock"]
    /\ UNCHANGED defaultConfig
    /\ GoFrame

\* doSlow: the deferred o.m.Unlock()
OnceUnlock(g) ==
    /\ pc = "concurrent" /\ goroutines[g].pc = "unlock"
    /\ defaultConfigOnce' = [defaultConfigOnce EXCEPT !.m = 0]
    /\ goroutines' = [goroutines EXCEPT ![g].pc = "return"]
    /\ UNCHANGED defaultConfig
    /\ GoFrame

\* DefaultConfig returns defaultConfig; Parse makes the walker of the call
ReturnDefaultConfig(g) ==
    /\ pc = "concurrent" /\ goroutines[g].pc = "return"
    /\ goroutines' = [goroutines EXCEPT ![g].pc = "walk", ![g].config = defaultConfig,
                                         ![g].w = NewEventWalker]
    /\ UNCHANGED <<defaultConfig, defaultConfigOnce>>
    /\ GoFrame

\* one call of Walk on the walker of the goroutine; a nil config panics where it is read
WalkNode(g) ==
    /\ pc = "concurrent" /\ goroutines[g].pc = "walk"
    /\ LET me == goroutines[g]
           event == me.markdown[me.at]
       IN  IF ReadsConfig(event) /\ ~me.config.set
           THEN goroutines' = [goroutines EXCEPT ![g].pc = "panic"]
           ELSE goroutines' = [goroutines EXCEPT
                   ![g].w = WalkCall(me.w, event, me.at),
                   ![g].at = me.at + 1,
                   ![g].pc = IF me.at = Len(me.markdown) THEN "result" ELSE "walk"]
    /\ UNCHANGED <<defaultConfig, defaultConfigOnce>>
    /\ GoFrame

\* Parse returns walker.Result()
ReturnResult(g) ==
    /\ pc = "concurrent" /\ goroutines[g].pc = "result"
    /\ goroutines' = [goroutines EXCEPT ![g].pc = "done", ![g].result = Result(goroutines[g].w)]
    /\ UNCHANGED <<defaultConfig, defaultConfigOnce>>
    /\ GoFrame

NextConcurrent ==
    \E g \in 1..NumGoroutines :
        \/ OnceLoad(g) \/ OnceLock(g) \/ OnceRun(g) \/ OnceStore(g) \/ OnceUnlock(g)
        \/ ReturnDefaultConfig(g) \/ WalkNode(g) \/ ReturnResult(g)

SpecConcurrent == InitConcurrent /\ [][NextConcurrent]_vars

(***************************************************************************)
(* A TextBuffer under any sequence of Write, PopLast and Reset.  calls is  *)
(* the log of the calls made: the argument, what was returned and what the *)
(* accessors answered before the call.                                     *)
(***************************************************************************)
\* well-formed fragments: empty, ASCII, a newline, two bytes, four bytes, a line
Fragments ==
    { <<>>, <<97>>, <<10>>, <<195, 169>>, <<240, 159, 152, 128>>, <<97, 10>> }

\* the answers of the accessors of a buffer
Accessors(wk) ==
    [String |-> BufString(wk), UTF16Offset |-> wk.utf16Offset, ByteOffset |-> ByteOffset(wk)]

InitBuffer ==
    /\ pc = "buffer"
    /\ tb = New
    /\ calls = <<>>
    /\ defaultConfig = Nil
    /\ defaultConfigOnce = NotDone
    /\ goroutines = <<>>
    /\ w = NewEventWalker
    /\ open = <<>>
    /\ spans = <<>>
    /\ walked = 0
    /\ text = <<>> /\ entities = <<>> /\ maxUTF16Len = 0 /\ byteStart = 0
    /\ chunksRanges = <<>> /\ result = <<>>
    /\ stripped = <<>> /\ adjusted = <<>>
    /\ fullText = <<>> /\ fullEntities = <<>> /\ segments = <<>>
    /\ maxMessageLength = 0 /\ renderOK = <<>>
    /\ codePoints = <<>> /\ counts = NotCalled

BufferFrame == UNCHANGED <<pc, splitVars, trimVars, pipeVars, utfVars, walkVars, goVars>>

CallWrite ==
    /\ pc = "buffer" /\ Len(calls) < MaxCalls
    /\ \E fragment \in Fragments :
          /\ tb' = BufWrite(tb, fragment)
          /\ calls' = Append(calls, [op |-> "Write", text |-> fragment,
                                     returned |-> <<>>, before |-> Accessors(tb)])
    /\ BufferFrame

CallPopLast ==
    /\ pc = "buffer" /\ Len(calls) < MaxCalls
    /\ tb' = PopLast(tb)
    /\ calls' = Append(calls, [op |-> "PopLast", text |-> <<>>,
                               returned |-> PopLastReturned(tb), before |-> Accessors(tb)])
    /\ BufferFrame

CallReset ==
    /\ pc = "buffer" /\ Len(calls) < MaxCalls
    /\ tb' = Reset(tb)
    /\ calls' = Append(calls, [op |-> "Reset", text |-> <<>>,
                               returned |-> <<>>, before |-> Accessors(tb)])
    /\ BufferFrame

NextBuffer == CallWrite \/ CallPopLast \/ CallReset

SpecBuffer == InitBuffer /\ [][NextBuffer]_vars

(***************************************************************************)
(* Properties of SplitEntities                                             *)
(***************************************************************************)
RECURSIVE ConcatTexts(_)
ConcatTexts(chunks) ==
    IF chunks = <<>> THEN <<>> ELSE Head(chunks).Text \o ConcatTexts(Tail(chunks))

HasMultiByte(t) == \E i \in 1..Len(t) : t[i] >= 128

AllValid(ents, t) == AllValidFor(ents, t)

\* C1: the texts of the returned chunks, concatenated in order, are the input text,
\* for every text, entity list and maxUTF16Len (positive, zero or negative)
C1_RoundTrip == pc = "done" => ConcatTexts(result) = text

C1_Witness ==
    /\ pc = "done"
    /\ Len(result) >= 3
    /\ HasMultiByte(text)
    /\ entities # <<>>
    /\ ConcatTexts(result) = text

\* C2: for maxUTF16Len >= 2 every returned chunk has a UTF-16 length of at most
\* maxUTF16Len
C2_ChunkWithinBudget ==
    (pc = "done" /\ maxUTF16Len >= 2)
        => \A k \in 1..Len(result) : UTF16Len(result[k].Text) <= maxUTF16Len

\* C3: for input entities valid for the text, every entity of every returned chunk
\* has offset >= 0, length > 0 and offset + length <= UTF16Len(chunk.Text)
C3_ChunkEntitiesValid ==
    (pc = "done" /\ AllValid(entities, text))
        => \A k \in 1..Len(result) : AllValid(result[k].Entities, result[k].Text)

\* C4: every cut (the end of every range of chunksRanges) falls on a character
\* boundary of the text
C4_CutsOnCharBoundaries ==
    \A k \in 1..Len(chunksRanges) : chunksRanges[k][2] \in CharBoundaries(text)

\* the copies of the input entity of type ty in the chunks
RECURSIVE SumLengths(_, _)
SumLengths(ents, ty) ==
    IF ents = <<>> THEN 0
    ELSE (IF Head(ents).Type = ty THEN Head(ents).Length ELSE 0) + SumLengths(Tail(ents), ty)

RECURSIVE SumOverChunks(_, _)
SumOverChunks(chunks, ty) ==
    IF chunks = <<>> THEN 0
    ELSE SumLengths(Head(chunks).Entities, ty) + SumOverChunks(Tail(chunks), ty)

SameAttributes(c, e) ==
    c.Type = e.Type /\ c.URL = e.URL /\ c.Language = e.Language
    /\ c.CustomEmojiID = e.CustomEmojiID

\* C5: for every valid input entity (the entities of one list have distinct types) the
\* lengths of its copies over all chunks sum to its length, and every copy keeps the
\* type, URL, language and custom-emoji id
C5_ClippedLengthsSum ==
    (pc = "done" /\ AllValid(entities, text))
        => /\ \A i \in 1..Len(entities) :
                SumOverChunks(result, entities[i].Type) = entities[i].Length
           /\ \A k \in 1..Len(result) : \A j \in 1..Len(result[k].Entities) :
                \E i \in 1..Len(entities) : SameAttributes(result[k].Entities[j], entities[i])

\* C6: if UTF16Len(text) <= maxUTF16Len the result is exactly one chunk holding the
\* input text and the input entity list unchanged (also for the empty text)
C6_UnsplitWithinBudget ==
    (pc = "done" /\ UTF16Len(text) <= maxUTF16Len)
        => result = <<[Text |-> text, Entities |-> entities]>>

C6_Witness ==
    /\ pc = "done"
    /\ UTF16Len(text) = maxUTF16Len
    /\ maxUTF16Len > 0
    /\ entities # <<>>
    /\ ~AllValid(entities, text)
    /\ result = <<[Text |-> text, Entities |-> entities]>>

\* C7 as claimed: no returned chunk has empty text, for any input text
C7_NoEmptyChunk == pc = "done" => \A k \in 1..Len(result) : result[k].Text # <<>>

\* C7 amended: for a non-empty input text every range the cut loop appends is
\* non-empty and no returned chunk has empty text, for every maxUTF16Len
C7_NoEmptyChunkOfNonEmptyText ==
    text # <<>>
        => /\ \A k \in 1..Len(chunksRanges) : chunksRanges[k][1] < chunksRanges[k][2]
           /\ pc = "done" => \A k \in 1..Len(result) : result[k].Text # <<>>

C7_Witness ==
    /\ pc = "done"
    /\ text # <<>>
    /\ maxUTF16Len <= 0
    /\ Len(result) >= 2
    /\ \A k \in 1..Len(result) : result[k].Text # <<>>

(***************************************************************************)
(* Properties of ProcessMarkdown and of the newline trim                   *)
(***************************************************************************)
\* C8: ProcessMarkdown returns an artifact list without panicking for every converted
\* text and every maxMessageLength
C8_ProcessMarkdownTotal == pc # "panic"

OnlyNewlines(t) == \A i \in 1..Len(t) : t[i] = 10

\* C9 as claimed: on a text of newlines only, or the empty text, stripNewlinesAdjustInternal
\* returns the empty text and an empty entity list, whatever entities are passed
C9_OnlyNewlinesGiveNothing ==
    (pc = "internal" /\ OnlyNewlines(text)) => (stripped = <<>> /\ adjusted = <<>>)

\* C9 amended: on a non-empty text of newlines only stripNewlinesAdjustInternal returns
\* the empty text and an empty entity list, whatever entities are passed; on the empty
\* text it returns the empty text and the entity list it was passed
C9_OnlyNewlinesOrEmpty ==
    (pc = "internal" /\ OnlyNewlines(text))
        => /\ stripped = <<>>
           /\ text # <<>> => adjusted = <<>>
           /\ text = <<>> => adjusted = entities

C9_Witness ==
    /\ pc = "internal"
    /\ OnlyNewlines(text)
    /\ Len(text) >= 2
    /\ entities # <<>>
    /\ stripped = <<>>
    /\ adjusted = <<>>

\* the maximal leading and trailing runs of newline bytes
LeadRun(t) == Cardinality({ k \in 1..Len(t) : \A i \in 1..k : t[i] = 10 })

TrailRun(t) == Cardinality({ k \in 1..Len(t) : \A i \in (Len(t) - k + 1)..Len(t) : t[i] = 10 })

TrimmedText(t) ==
    IF OnlyNewlines(t) THEN <<>> ELSE SubSeq(t, LeadRun(t) + 1, Len(t) - TrailRun(t))

\* [o - L, o + n - L) intersected with [0, U), when not empty
RECURSIVE IntersectedEntities(_, _, _)
IntersectedEntities(ents, L, U) ==
    IF ents = <<>> THEN <<>>
    ELSE LET e == Head(ents)
             lo == IF e.Offset - L > 0 THEN e.Offset - L ELSE 0
             hi == IF e.Offset + e.Length - L < U THEN e.Offset + e.Length - L ELSE U
         IN  (IF lo < hi THEN <<[e EXCEPT !.Offset = lo, !.Length = hi - lo]>> ELSE <<>>)
             \o IntersectedEntities(Tail(ents), L, U)

\* C10: when the trim returns (stripNewlinesAdjustInternal always, stripNewlinesAdjust
\* unless it panics) and it removed a newline or the entities are valid for the text, the
\* text returned is the input without its maximal leading and trailing newline runs and
\* the entities returned are, in order and with their attributes, the non-empty
\* intersections of [o - L, o + n - L) with [0, UTF16Len(result))
C10_TrimMapsEntities ==
    (pc \in {"internal", "returned"}
     /\ (LeadRun(text) + TrailRun(text) > 0 \/ AllValid(entities, text)))
        => /\ stripped = TrimmedText(text)
           /\ adjusted = IntersectedEntities(entities, LeadRun(text), UTF16Len(TrimmedText(text)))

C10_Witness ==
    /\ pc = "internal"
    /\ LeadRun(text) >= 1
    /\ TrailRun(text) >= 1
    /\ stripped # <<>>
    /\ Len(entities) = 2
    /\ Len(adjusted) = 2
    /\ adjusted[2].Length < entities[2].Length
    /\ adjusted[1].Offset = entities[1].Offset - LeadRun(text)

\* C11: a pair whose text has no leading and no trailing newline is returned unchanged
\* by stripNewlinesAdjustInternal (and by stripNewlinesAdjust), and trimming the pair a
\* trim returned returns that pair again: trim(trim(x)) = trim(x)
C11_TrimIdempotent ==
    /\ [](pc \in {"internal", "returned"}
            /\ (text = <<>> \/ (text[1] # 10 /\ text[Len(text)] # 10))
          => stripped = text /\ adjusted = entities)
    /\ [][pc' \in {"internal2", "returned2"}
            => stripped' = stripped /\ adjusted' = adjusted]_vars

C11_Witness ==
    /\ pc = "internal2"
    /\ Len(text) >= 3
    /\ text[1] = 10
    /\ text[Len(text)] = 10
    /\ stripped # <<>>
    /\ Len(stripped) < Len(text)
    /\ adjusted # <<>>
    /\ adjusted # entities

(***************************************************************************)
(* Properties of the artifact list                                         *)
(***************************************************************************)
\* the number of lines of a raw code: its newline bytes, plus one
LineCount(code) == Cardinality({ i \in 1..Len(code) : code[i] = 10 }) + 1

\* sub occurs in t as a run of consecutive bytes
OccursIn(sub, t) == \E a \in 0..(Len(t) - Len(sub)) : SubSeq(t, a + 1, a + Len(sub)) = sub

FilesOf(res) == { k \in 1..Len(res) : res[k].Kind = "file" /\ res[k].SourceType = "file" }

\* C12: when ProcessMarkdown returns, a code_block segment has a File artifact, whose
\* FileData is the segment's raw code, if and only if the raw code has more than 50
\* lines; there is no other File of a code block, and a block of at most 50 lines
\* (not empty, no newline at either end) is found inline in a Text artifact when the
\* text fits one message and no other segment is extracted
C12_CodeBlockThreshold ==
    pc = "returned" =>
        /\ \A i \in 1..Len(segments) :
              segments[i].Kind = "code_block" =>
                 /\ LineCount(segments[i].RawCode) > 50
                      <=> \E k \in FilesOf(result) : result[k].FileData = segments[i].RawCode
                 /\ (LineCount(segments[i].RawCode) <= 50 /\ maxMessageLength <= 0
                     /\ segments[i].RawCode # <<>>
                     /\ Head(segments[i].RawCode) # 10
                     /\ segments[i].RawCode[Len(segments[i].RawCode)] # 10
                     /\ \A j \in 1..Len(segments) : segments[j].Kind = "code_block")
                      => \E k \in 1..Len(result) :
                            /\ result[k].Kind = "text"
                            /\ OccursIn(segments[i].RawCode, result[k].Text)
        /\ Cardinality(FilesOf(result))
             = Cardinality({ i \in 1..Len(segments) :
                               segments[i].Kind = "code_block"
                               /\ LineCount(segments[i].RawCode) > 50 })

C12_Witness ==
    /\ pc = "returned"
    /\ Len(segments) = 1
    /\ segments[1].Kind = "code_block"
    /\ LineCount(segments[1].RawCode) = 51
    /\ Len(result) = 3
    /\ result[1].Kind = "text"
    /\ result[2].Kind = "file"
    /\ result[2].FileData = segments[1].RawCode
    /\ result[3].Kind = "text"

\* the segments ProcessMarkdown takes out of the text: diagrams, and long code blocks
Externalized(seg) ==
    seg.Kind = "mermaid" \/ (seg.Kind = "code_block" /\ LineCount(seg.RawCode) > 50)

ExternalizedIdx == { i \in 1..Len(segments) : Externalized(segments[i]) }

\* the rank of segment i among the externalized segments
RankOf(i) == Cardinality({ j \in ExternalizedIdx : j <= i })

\* the position in res of its n-th artifact that is not a Text (0 when there is none)
NthNonText(res, n) ==
    LET ks == { k \in 1..Len(res) :
                  res[k].Kind # "text"
                  /\ Cardinality({ j \in 1..k : res[j].Kind # "text" }) = n }
    IN  IF ks = {} THEN 0 ELSE CHOOSE k \in ks : TRUE

\* the byte position where the text run after segment i ends: the start of the next
\* externalized segment, or the end of the text
RunEndAfter(i) ==
    LET later == { j \in ExternalizedIdx : j > i }
    IN  IF later = {} THEN Len(fullText)
        ELSE segments[CHOOSE j \in later : \A h \in later : j <= h].TextStart

\* the positions of the bytes other than newlines in fullText[a:b]
InkIn(a, b) == { q \in (a + 1)..b : fullText[q] # 10 }

\* C13: when ProcessMarkdown returns (its only return carries a nil error), the
\* artifacts that are not Text are one per externalized segment, in order; that of a
\* mermaid segment is a Photo when its render succeeded and otherwise a File holding the
\* raw diagram source, and when the text that follows the segment (up to the next
\* externalized segment) holds more than newlines, the next artifact is a Text that
\* begins with the first of these bytes
C13_MermaidOneArtifact ==
    pc = "returned" =>
        /\ Cardinality({ k \in 1..Len(result) : result[k].Kind # "text" })
             = Cardinality(ExternalizedIdx)
        /\ \A i \in ExternalizedIdx :
              segments[i].Kind = "mermaid" =>
                 LET pos == NthNonText(result, RankOf(i))
                     ink == InkIn(segments[i].TextEnd, RunEndAfter(i))
                 IN  /\ pos > 0
                     /\ result[pos].SourceType = "mermaid"
                     /\ renderOK[RankOf(i)] => result[pos].Kind = "photo"
                     /\ ~renderOK[RankOf(i)]
                          => /\ result[pos].Kind = "file"
                             /\ result[pos].FileData = segments[i].RawCode
                     /\ ink # {}
                          => /\ pos < Len(result)
                             /\ result[pos + 1].Kind = "text"
                             /\ result[pos + 1].Text # <<>>
                             /\ Head(result[pos + 1].Text)
                                  = fullText[CHOOSE q \in ink : \A h \in ink : q <= h]

C13_Witness ==
    /\ pc = "returned"
    /\ Len(segments) = 2
    /\ segments[1].Kind = "mermaid"
    /\ segments[2].Kind = "mermaid"
    /\ renderOK = <<FALSE, TRUE>>
    /\ Len(result) = 3
    /\ result[1].Kind = "file"
    /\ result[1].FileData = segments[1].RawCode
    /\ result[1].FileData # <<>>
    /\ result[2].Kind = "text"
    /\ result[3].Kind = "photo"

\* the n-th externalized segment
NthExternalized(n) == segments[CHOOSE i \in ExternalizedIdx : RankOf(i) = n]

\* the text run number n, n = 0 before the first externalized segment: its bytes
RunBytes(n) ==
    LET from == IF n = 0 THEN 0 ELSE NthExternalized(n).TextEnd
        to == IF n = Cardinality(ExternalizedIdx) THEN Len(fullText)
              ELSE NthExternalized(n + 1).TextStart
    IN  SubSeq(fullText, from + 1, to)

\* the texts of the artifacts res[lo..hi], concatenated
RECURSIVE TextsBetween(_, _, _)
TextsBetween(res, lo, hi) ==
    IF lo > hi THEN <<>> ELSE res[lo].Text \o TextsBetween(res, lo + 1, hi)

WithoutNewlines(t) == SelectSeq(t, LAMBDA b : b # 10)

\* C14: when ProcessMarkdown returns, its list is, in source order, the Text artifacts
\* of the run before the first externalized segment, that segment's artifact, the Text
\* artifacts of the next run, and so on to the run after the last segment; the Text
\* artifacts of one run, put together in their order, give the run's bytes (newlines,
\* which the trims remove at chunk ends, apart)
C14_SourceOrder ==
    pc = "returned" =>
        LET n == Cardinality(ExternalizedIdx)
            posOf(k) == IF k = 0 THEN 0
                        ELSE IF k = n + 1 THEN Len(result) + 1
                        ELSE NthNonText(result, k)
        IN  /\ \A k \in 1..n :
                  /\ posOf(k) > posOf(k - 1)
                  /\ result[posOf(k)].Kind # "text"
                  /\ NthExternalized(k).Kind = "mermaid"
                        <=> result[posOf(k)].SourceType = "mermaid"
                  /\ result[posOf(k)].Kind = "file"
                        => result[posOf(k)].FileData = NthExternalized(k).RawCode
            /\ \A k \in 0..n :
                  /\ \A j \in (posOf(k) + 1)..(posOf(k + 1) - 1) : result[j].Kind = "text"
                  /\ WithoutNewlines(TextsBetween(result, posOf(k) + 1, posOf(k + 1) - 1))
                       = WithoutNewlines(RunBytes(k))

C14_Witness ==
    /\ pc = "returned"
    /\ Len(segments) = 2
    /\ Cardinality(ExternalizedIdx) = 2
    /\ Len(result) >= 6
    /\ result[1].Kind = "text"
    /\ result[2].Kind # "text"
    /\ result[3].Kind = "text"
    /\ result[4].Kind = "text"
    /\ result[3].Text # result[4].Text
    /\ result[Len(result) - 1].Kind # "text"
    /\ result[Len(result)].Kind = "text"

\* C15: a call of ProcessMarkdown with a non-positive maxMessageLength ends as the same
\* call with maxMessageLength = 4096 ends: with the same artifact list, or panicking
\* where that call panics
C15_NonPositiveMaxIsDefault ==
    (pc \in {"returned", "panic"} /\ maxMessageLength <= 0)
        => LET same == ProcessMarkdown(fullText, fullEntities, segments, 4096, renderOK)
           IN  /\ (pc = "panic") = same.panic
               /\ pc = "returned" => result = same.result

C15_Witness ==
    /\ pc = "returned"
    /\ maxMessageLength <= 0
    /\ Len(result) = 1
    /\ result[1].Kind = "text"
    /\ UTF16Len(result[1].Text) >= 50

(***************************************************************************)
(* Properties of UTF16Len                                                  *)
(***************************************************************************)
\* 2 for each code point above U+FFFF, 1 for each other
RECURSIVE UnitsOfCodePoints(_)
UnitsOfCodePoints(cps) ==
    IF cps = <<>> THEN 0
    ELSE (IF Head(cps) > 65535 THEN 2 ELSE 1) + UnitsOfCodePoints(Tail(cps))

Converted == pc = "walk" /\ open = <<>>

SpansOf(kind) == { k \in 1..Len(spans) : spans[k].Kind = kind }

\* the bytes of the plain text hold s
RECURSIVE OccursFrom(_, _, _)
OccursFrom(s, t, k) ==
    IF k + Len(s) - 1 > Len(t) THEN FALSE
    ELSE IF SubSeq(t, k, k + Len(s) - 1) = s THEN TRUE
    ELSE OccursFrom(s, t, k + 1)

\* C17: after the conversion of any document every emitted entity has a length above
\* zero, an offset of zero or more, and ends within the UTF-16 length of the plain text
C17_EntitiesValid ==
    Converted =>
        LET units == UTF16Len(BufString(w))
        IN  \A k \in 1..Len(w.entities) :
                /\ w.entities[k].Length > 0
                /\ w.entities[k].Offset >= 0
                /\ w.entities[k].Offset + w.entities[k].Length <= units

\* a task item whose checkbox took the place of the bullet, with a code span after it
C17_Witness ==
    /\ Converted
    /\ SpansOf("ListItem") # {}
    /\ OccursFrom(TaskCompleted, BufString(w), 1)
    /\ ~OccursFrom(Bullet, BufString(w), 1)
    /\ \E k \in 1..Len(w.entities) : w.entities[k].Type = "code" /\ w.entities[k].Offset = 2

\* the entity type of an Emphasis node
EmphasisType(level) == IF level = 2 THEN "bold" ELSE "italic"

\* the exit of the node emitted one entity, of the type, over the text written while the
\* node was open
CoversOwnText(span, etype) ==
    /\ Cardinality(span.Emitted) = 1
    /\ \A k \in span.Emitted :
          /\ w.owners[k] = span.Node
          /\ w.entities[k].Type = etype
          /\ w.entities[k].Offset = span.From
          /\ w.entities[k].Offset + w.entities[k].Length = span.To

\* an Emphasis node within another, with text written while the inner one was open
NestedEmphasis(inner, outer) ==
    /\ spans[inner].Kind = "Emphasis" /\ spans[outer].Kind = "Emphasis"
    /\ spans[outer].Node \in spans[inner].Ancestors
    /\ spans[inner].To > spans[inner].From

EmittedOfType(span, etype) == { k \in span.Emitted : w.entities[k].Type = etype }

\* the numbers of bold, underline and italic entities of a heading
HeadingCounts(level) ==
    IF level \in {1, 2} THEN [bold |-> 1, underline |-> 1, italic |-> 0]
    ELSE IF level \in {3, 4} THEN [bold |-> 1, underline |-> 0, italic |-> 0]
    ELSE [bold |-> 0, underline |-> 0, italic |-> 1]

\* the plain text up to the start of the heading's text ends with the glyph of the
\* level and a space, written by the heading after the spacing between blocks
AfterGlyph(span) ==
    /\ span.From - span.Start \in { n + UTF16Len(HeadingSymbol(span.Level) \o ChSP) :
                                      n \in 0..2 }
    /\ span.FromByte >= Len(HeadingSymbol(span.Level)) + 1
    /\ SubSeq(BufString(w), span.FromByte - Len(HeadingSymbol(span.Level)), span.FromByte)
          = HeadingSymbol(span.Level) \o ChSP

\* the entities of an exited heading: their number by type, and the range of each
HeadingEntities(span) ==
    /\ Cardinality(EmittedOfType(span, "bold")) = HeadingCounts(span.Level).bold
    /\ Cardinality(EmittedOfType(span, "underline")) = HeadingCounts(span.Level).underline
    /\ Cardinality(EmittedOfType(span, "italic")) = HeadingCounts(span.Level).italic
    /\ Cardinality(span.Emitted) = HeadingCounts(span.Level).bold
                                   + HeadingCounts(span.Level).underline
                                   + HeadingCounts(span.Level).italic
    /\ \A k \in span.Emitted :
          /\ w.owners[k] = span.Node
          /\ w.entities[k].Offset = span.From
          /\ w.entities[k].Offset + w.entities[k].Length = span.To
    /\ AfterGlyph(span)

\* no scope pushed by an exited heading is on the stack
HeadingScopesClosed ==
    \A h \in SpansOf("Heading") : \A k \in 1..Len(w.entityStack) :
        w.entityStack[k].Node # spans[h].Node

IsEmojiDestination(dest) ==
    /\ Len(dest) = Len(EmojiPrefix) + 19
    /\ SubSeq(dest, 1, Len(EmojiPrefix)) = EmojiPrefix
    /\ \A k \in (Len(EmojiPrefix) + 1)..Len(dest) : dest[k] \in 48..57

EmojiIdOf(dest) == SubSeq(dest, Len(EmojiPrefix) + 1, Len(dest))

\* the entities emitted for a node
EntitiesOf(node) == { k \in 1..Len(w.entities) : w.owners[k] = node }

\* C20: an exited Link with an emoji destination and text has exactly one entity, a
\* custom_emoji entity with the id of the destination over the text of the link, and
\* no text_link entity
C20_EmojiLink ==
    \A l \in SpansOf("Link") :
        (IsEmojiDestination(spans[l].Dest) /\ spans[l].To > spans[l].From) =>
            /\ Cardinality(EntitiesOf(spans[l].Node)) = 1
            /\ \A k \in EntitiesOf(spans[l].Node) :
                  /\ w.entities[k].Type = "custom_emoji"
                  /\ w.entities[k].CustomEmojiID = EmojiIdOf(spans[l].Dest)
                  /\ w.entities[k].Offset = spans[l].From
                  /\ w.entities[k].Offset + w.entities[k].Length = spans[l].To

\* C21: once an AutoLink node is exited its URL is in the plain text and the entity list
\* holds exactly one entity for it, a text_link over exactly the URL text, with that URL
C21_AutoLinkEntity ==
    \A a \in SpansOf("AutoLink") :
        /\ spans[a].To - spans[a].Start = UTF16Len(spans[a].Dest)
        /\ Cardinality(EntitiesOf(spans[a].Node)) = 1
        /\ \A k \in EntitiesOf(spans[a].Node) :
              /\ w.entities[k].Type = "text_link"
              /\ w.entities[k].URL = spans[a].Dest
              /\ w.entities[k].Offset = spans[a].Start
              /\ w.entities[k].Offset + w.entities[k].Length = spans[a].To

\* the blockquote entities above the threshold length
LongQuotes(ents) ==
    { k \in 1..Len(ents) : ents[k].Type = "blockquote" /\ ents[k].Length > 200 }

\* C22: with CiteExpandable the exit of the document turns every blockquote entity
\* longer than 200 UTF-16 units into an expandable_blockquote, leaves the type of every
\* other entity, and leaves every offset, length and other attribute
C22_ExpandableBlockquotes ==
    [][(pc = "quote" /\ pc' = "converted" /\ w.CiteExpandable) =>
          /\ Len(w'.entities) = Len(w.entities)
          /\ \A k \in 1..Len(w.entities) :
                /\ w'.entities[k].Type =
                      IF k \in LongQuotes(w.entities) THEN "expandable_blockquote"
                      ELSE w.entities[k].Type
                /\ w'.entities[k].Offset = w.entities[k].Offset
                /\ w'.entities[k].Length = w.entities[k].Length
                /\ w'.entities[k].URL = w.entities[k].URL
                /\ w'.entities[k].Language = w.entities[k].Language
                /\ w'.entities[k].CustomEmojiID = w.entities[k].CustomEmojiID
          /\ \A k \in 1..Len(w'.entities) :
                w'.entities[k].Type = "blockquote" => w'.entities[k].Length <= 200]_vars

\* a converted document with a quote one unit above the threshold, promoted
C22_Witness ==
    /\ pc = "converted"
    /\ w.CiteExpandable
    /\ Len(w.entities) = 1
    /\ w.entities[1].Type = "expandable_blockquote"
    /\ w.entities[1].Length = 201

\* the goroutines that have their configuration
Configured == { g \in 1..NumGoroutines : goroutines[g].pc \in {"walk", "result", "done"} }

\* C23: in every interleaving of concurrent conversions with a nil config the default
\* configuration is stored once at most, and once before any call goes on with it; no
\* call fails, every call returns what it returns alone, and a step of one call changes
\* neither the walker of another call nor the default configuration once it is set
C23_ConcurrentConversions ==
    /\ [](pc = "concurrent" =>
            /\ defaultConfig.stores <= 1
            /\ \A g \in 1..NumGoroutines :
                  /\ goroutines[g].pc # "panic"
                  /\ g \in Configured =>
                        /\ defaultConfig.stores = 1
                        /\ goroutines[g].config.set
                        /\ goroutines[g].config.value = DefaultRenderConfig
                  /\ goroutines[g].pc = "done" =>
                        goroutines[g].result = ConvertAlone(goroutines[g].markdown))
    /\ [][pc = "concurrent" =>
            /\ defaultConfig.set => defaultConfig' = defaultConfig
            /\ \A g \in 1..NumGoroutines : \A h \in 1..NumGoroutines :
                  (g # h /\ goroutines'[g] # goroutines[g]) =>
                      goroutines'[h] = goroutines[h]]_vars

\* two calls, both in the walk at once, have returned the results of their documents
C23_Witness ==
    /\ pc = "concurrent"
    /\ \A g \in 1..NumGoroutines : goroutines[g].pc = "done"
    /\ goroutines[1].markdown # goroutines[2].markdown
    /\ goroutines[1].result.entities # <<>>
    /\ goroutines[2].result.entities # <<>>
    /\ defaultConfig.stores = 1

\* C24: after any sequence of Write, PopLast and Reset with well-formed fragments,
\* UTF16Offset() is the UTF-16 length of String() and ByteOffset() its byte length
C24_BufferOffsets ==
    pc = "buffer" =>
        /\ tb.utf16Offset = UTF16Len(BufString(tb))
        /\ ByteOffset(tb) = Len(BufString(tb))

\* a part was popped off a buffer that still holds text of different byte and UTF-16 length
C24_Witness ==
    /\ pc = "buffer"
    /\ \E i \in 1..Len(calls) : calls[i].op = "PopLast" /\ calls[i].returned # <<>>
    /\ tb.utf16Offset >= 2
    /\ ByteOffset(tb) > tb.utf16Offset

\* the fragments written and not yet popped or reset, by the log of the calls
RECURSIVE StillWritten(_)
StillWritten(log) ==
    IF log = <<>> THEN <<>>
    ELSE LET earlier == StillWritten(SubSeq(log, 1, Len(log) - 1))
             call == log[Len(log)]
         IN  IF call.op = "Write" THEN Append(earlier, call.text)
             ELSE IF call.op = "Reset" THEN <<>>
             ELSE IF earlier = <<>> THEN <<>>
             ELSE SubSeq(earlier, 1, Len(earlier) - 1)

\* C25: PopLast returns the most recently written fragment still in the buffer and
\* removes it; after Write(f) it returns f and String(), UTF16Offset() and ByteOffset()
\* are what they were before the Write; on an empty buffer it returns the empty string
\* and changes nothing
C25_PopLast ==
    \A i \in 1..Len(calls) :
        calls[i].op = "PopLast" =>
            LET written == StillWritten(SubSeq(calls, 1, i - 1))
                after == IF i = Len(calls) THEN Accessors(tb) ELSE calls[i + 1].before
            IN  /\ written = <<>> =>
                      /\ calls[i].returned = <<>>
                      /\ after = calls[i].before
                /\ written # <<>> =>
                      /\ calls[i].returned = written[Len(written)]
                      /\ after.String = Flatten(SubSeq(written, 1, Len(written) - 1))
                /\ (i > 1 /\ calls[i - 1].op = "Write") =>
                      /\ calls[i].returned = calls[i - 1].text
                      /\ after = calls[i - 1].before

\* a four-byte fragment was written after another one and popped again, and a PopLast
\* met the empty buffer
C25_Witness ==
    /\ pc = "buffer"
    /\ \E i \in 2..Len(calls) :
          /\ calls[i].op = "PopLast" /\ calls[i - 1].op = "Write"
          /\ calls[i].returned = <<240, 159, 152, 128>>
          /\ calls[i - 1].before.String # <<>>
    /\ \E i \in 1..Len(calls) : calls[i].op = "PopLast" /\ calls[i].before.String = <<>>

\* the length of the maximal run of newlines at the end of a string
RECURSIVE TrailingRun(_)
TrailingRun(s) ==
    IF s = <<>> THEN 0
    ELSE IF s[Len(s)] = 10 THEN 1 + TrailingRun(SubSeq(s, 1, Len(s) - 1))
    ELSE 0

\* C26: TrailingNewlineCount() is the length of the maximal run of newlines at the end
\* of String(), across fragments and empty last fragments, and 0 for an empty buffer
C26_TrailingNewlineCount ==
    pc = "buffer" =>
        /\ TrailingNewlineCount(tb) = TrailingRun(BufString(tb))
        /\ BufString(tb) = <<>> => TrailingNewlineCount(tb) = 0

\* the run of newlines spans two fragments and an empty fragment was written last
C26_Witness ==
    /\ pc = "buffer"
    /\ Len(tb.parts) = 3
    /\ tb.parts[1] = <<97, 10>> /\ tb.parts[2] = <<10>> /\ tb.parts[3] = <<>>
    /\ TrailingNewlineCount(tb) = 2

\* the UTF-16 units of the characters of t that end at or before byte position p
RECURSIVE UnitsBefore(_, _)
UnitsBefore(rs, p) ==
    IF rs = <<>> THEN 0
    ELSE (IF Head(rs).i + RuneLen(Head(rs).r) <= p THEN RuneUnits(Head(rs).r) ELSE 0)
         + UnitsBefore(Tail(rs), p)

UTF16Before(t, p) == UnitsBefore(RangeString(t), p)

\* the positions directly after a newline, later than byteStart s, within the budget of s
NewlinesWithinBudget(s) ==
    { p \in (s + 1)..Len(text) :
        text[p] = 10 /\ UTF16Before(text, p) <= UTF16Before(text, s) + maxUTF16Len }

\* C27: a chunk whose start leaves more text than the budget holds, with a position
\* directly after a newline within the budget, ends at the latest such position
C27_NewlinePreferred ==
    \A i \in 1..Len(chunksRanges) :
        LET s == chunksRanges[i][1]
        IN  (/\ UTF16Before(text, Len(text)) > UTF16Before(text, s) + maxUTF16Len
             /\ NewlinesWithinBudget(s) # {}) =>
                chunksRanges[i][2] = Maximum(NewlinesWithinBudget(s))

\* C28: for every text and budget, also 0 and negative, each iteration of the cut loop
\* that goes on moves byteStart forward, there are never more chunks than bytes, and
\* the call returns
C28_Terminates ==
    /\ [][(pc = "cut" /\ pc' = "cut") => byteStart' > byteStart]_vars
    /\ [](Len(chunksRanges) <= Len(text) /\ byteStart <= Len(text))
    /\ <>(pc = "done")

\* a budget of 0 or less has cut a text of several bytes into one chunk per byte
C28_Witness ==
    /\ pc = "done"
    /\ maxUTF16Len <= 0
    /\ Len(text) >= 3
    /\ Len(result) = Len(text)

\* the types of the scopes the walker pushes
EntityTypes ==
    {"bold", "italic", "underline", "strikethrough", "text_link", "custom_emoji",
     "spoiler", "blockquote", "code"}

\* the entity of a scope closed at the offset the buffer has reached
EntityOfScope(scope, offset) ==
    [Type |-> scope.EntityType, Offset |-> scope.StartOffset,
     Length |-> offset - scope.StartOffset, URL |-> scope.URL,
     Language |-> scope.Language, CustomEmojiID |-> scope.CustomEmojiID]

\* C29: on every scope stack a walk reaches, popEntity(T) removes the scope of type T
\* pushed last and no other, keeps the order of the others, appends at most the entity
\* of that scope to the entity list and leaves the text alone; with no scope of type T
\* open, the scope stack and the entity list are as before
C29_PopEntityFrame ==
    \A entityType \in EntityTypes :
        LET popped == popEntity(w, entityType)
            stack == w.entityStack
        IN  /\ popped.parts = w.parts /\ popped.utf16Offset = w.utf16Offset
            /\ IF \A i \in 1..Len(stack) : stack[i].EntityType # entityType
               THEN popped.entityStack = stack /\ popped.entities = w.entities
               ELSE \E k \in 1..Len(stack) :
                      /\ stack[k].EntityType = entityType
                      /\ \A j \in (k + 1)..Len(stack) : stack[j].EntityType # entityType
                      /\ Len(popped.entityStack) = Len(stack) - 1
                      /\ \A j \in 1..(k - 1) : popped.entityStack[j] = stack[j]
                      /\ \A j \in (k + 1)..Len(stack) : popped.entityStack[j - 1] = stack[j]
                      /\ popped.entities =
                            IF w.utf16Offset > stack[k].StartOffset
                            THEN Append(w.entities, EntityOfScope(stack[k], w.utf16Offset))
                            ELSE w.entities

\* a link exit found no text_link scope and left a custom_emoji scope above the two
\* scopes of the open heading, which the exit of the heading pops from below it
C29_Witness ==
    /\ pc = "walk"
    /\ Len(w.entityStack) = 3
    /\ w.entityStack[1].EntityType = "bold"
    /\ w.entityStack[2].EntityType = "underline"
    /\ w.entityStack[3].EntityType = "custom_emoji"
    /\ \E i \in 1..Len(spans) : spans[i].Kind = "Link"
    /\ w.utf16Offset > w.entityStack[2].StartOffset
    /\ popEntity(w, "underline").entities # w.entities

\* the nodes whose exit pops a scope
ScopedKinds == {"Link", "Image", "Emphasis", "Strikethrough", "Heading"}

\* C30: every entity the exit of a Link, Image, Emphasis, Strikethrough or Heading node
\* emits comes from a scope that node pushed, starts at the offset at which the node
\* was entered and ends at the offset at which it was exited
C30_ExitClosesOwnScope ==
    \A n \in 1..Len(spans) :
        spans[n].Kind \in ScopedKinds =>
            \A k \in spans[n].Emitted :
                /\ w.owners[k] = spans[n].Node
                /\ w.entities[k].Offset = spans[n].From
                /\ w.entities[k].Offset + w.entities[k].Length = spans[n].To

\* every node entered in the walk over the inline nodes has been exited
InlineWalkDone == pc = "inline" /\ open = <<>> /\ walked > 0

\* C31: when every node of the document has been exited no scope is open, apart from
\* the spoiler scopes of opening tags that were not closed, and no blockquote scope is
C31_NoScopeLeftOpen ==
    InlineWalkDone =>
        /\ \A i \in 1..Len(w.entityStack) : w.entityStack[i].EntityType = "spoiler"
        /\ w.blockquoteScopes = <<>>

\* the block a step of the walk starts with a call of ensureBlockSpacing, if any
StartsSpacedBlock ==
    /\ pc = "walk"
    /\ walked' = walked + 1
    /\ Len(open') = Len(open) + 1
    /\ \/ open'[Len(open')].Kind \in {"Heading", "Table"}
       \/ open'[Len(open')].Kind \in {"Paragraph", "List"} /\ w.listStack = <<>>

\* C32: ensureBlockSpacing writes nothing before the first block and otherwise exactly
\* max(0, 2 - k) newlines after k trailing newlines, so that two newlines precede the
\* block when k <= 2 and none is added when k >= 2; it changes nothing but the text,
\* and the steps that start a block begin with it
C32_BlockSpacing ==
    /\ [](LET spaced == ensureBlockSpacing(w)
              k == TrailingRun(BufString(w))
          IN  /\ [spaced EXCEPT !.parts = w.parts, !.utf16Offset = w.utf16Offset] = w
              /\ w.blockCount = 0 => spaced = w
              /\ w.blockCount > 0 =>
                    /\ BufString(spaced) =
                          BufString(w) \o [i \in 1..(IF k < 2 THEN 2 - k ELSE 0) |-> 10]
                    /\ spaced.utf16Offset = w.utf16Offset + (IF k < 2 THEN 2 - k ELSE 0)
                    /\ k <= 2 => TrailingRun(BufString(spaced)) = 2
                    /\ k >= 2 => spaced = w)
    /\ [][StartsSpacedBlock =>
            LET spaced == BufString(ensureBlockSpacing(w))
            IN  /\ Len(BufString(w')) >= Len(spaced)
                /\ SubSeq(BufString(w'), 1, Len(spaced)) = spaced]_vars

\* a paragraph was started after a block whose text ends with one newline, and one
\* newline was written before it; another block was started after text with none
C32_Witness ==
    /\ pc = "walk"
    /\ \E n \in 1..Len(spans) :
          /\ spans[n].Kind = "Paragraph" /\ spans[n].Ancestors = {}
          /\ spans[n].From = spans[n].Start + 1
    /\ \E n \in 1..Len(spans) :
          /\ spans[n].Kind = "Paragraph" /\ spans[n].Ancestors = {}
          /\ spans[n].From = spans[n].Start + 2

\* a step of the walk over lists enters an item of an ordered list
EntersOrderedItem ==
    /\ pc = "list"
    /\ open # <<>>
    /\ Len(open') = Len(open) + 1
    /\ open'[Len(open')].Kind = "ListItem"
    /\ open[Len(open)].Level >= 0

\* the items of the innermost open list that have been exited
ItemsBefore ==
    { n \in 1..Len(spans) : spans[n].Kind = "ListItem" /\ spans[n].Ancestors = NodesOpen }

\* the number of open lists
ListDepth == Cardinality({ i \in 1..Len(open) : open[i].Kind = "List" })

\* C33: the k-th item of an ordered list with start number s is prefixed with two
\* spaces per enclosing list, the number s+k-1 and ". ", after the output so far and at
\* most one newline; the items of a nested list do not count
C33_OrderedItemPrefix ==
    [][EntersOrderedItem =>
          LET prefix == Spaces(2 * (ListDepth - 1))
                        \o Decimal(open[Len(open)].Level + Cardinality(ItemsBefore))
                        \o <<46, 32>>
          IN  \/ BufString(w') = BufString(w) \o prefix
              \/ BufString(w') = BufString(w) \o <<10>> \o prefix]_vars

\* the second item of a list that starts at 9 is entered after a nested list with an
\* item of its own: it is numbered 10
C33_Witness ==
    /\ pc = "list"
    /\ Len(open) = 2
    /\ open[1].Kind = "List" /\ open[1].Level = 9
    /\ open[2].Kind = "ListItem" /\ open[2].Fresh
    /\ \E n \in 1..Len(spans) : spans[n].Kind = "ListItem" /\ Cardinality(spans[n].Ancestors) = 3
    /\ Len(BufString(w)) >= 4
    /\ SubSeq(BufString(w), Len(BufString(w)) - 3, Len(BufString(w))) = <<49, 48, 46, 32>>

\* a step of the walk over lists walks a task checkbox: a leaf whose text ends with a
\* space, which no text node does
WalksTaskCheckBox ==
    /\ pc = "list"
    /\ walked' = walked + 1
    /\ Len(open') = Len(open)
    /\ BufString(w') # <<>>
    /\ BufString(w')[Len(BufString(w'))] = 32

\* the innermost open list item
OpenItem == open[Maximum({ i \in 1..Len(open) : open[i].Kind = "ListItem" })]

WalksCodeBlock ==
    /\ pc = "code"
    /\ Len(spans') = Len(spans) + 1
    /\ spans'[Len(spans')].Kind = "FencedCodeBlock"

\* the source lines joined, less one newline at the end if there is one
CodeOf(lines) ==
    LET joined == Flatten(lines)
    IN  IF joined # <<>> /\ joined[Len(joined)] = 10
        THEN SubSeq(joined, 1, Len(joined) - 1) ELSE joined

\* C35: a code block writes, after the block spacing, its source lines joined less one
\* newline at the end; if that text is not empty one pre entity is emitted, over exactly
\* it, with the language annotation up to the first comma, trimmed; if it is empty no
\* entity is emitted
C35_CodeBlock ==
    [][WalksCodeBlock =>
          LET block == spans'[Len(spans')]
              code == CodeOf(block.Lines)
              spaced == ensureBlockSpacing(w)
          IN  /\ BufString(w') = BufString(spaced) \o code
              /\ code = <<>> => w'.entities = w.entities
              /\ code # <<>> =>
                    w'.entities = Append(w.entities,
                        [Type |-> "pre", Offset |-> spaced.utf16Offset,
                         Length |-> UTF16Len(code), URL |-> <<>>,
                         Language |-> StringsTrimSpace(BeforeComma(block.Dest)),
                         CustomEmojiID |-> <<>>])]_vars

\* a block of two lines, the second one empty, was written after a paragraph with the
\* language "go": its text ends with one newline
C35_Witness ==
    /\ pc = "code"
    /\ \E n \in 1..Len(spans) :
          /\ spans[n].Kind = "FencedCodeBlock"
          /\ spans[n].Lines = <<ChE4 \o ChNL, ChNL>>
          /\ spans[n].Start > 0
          /\ \E k \in spans[n].Emitted :
                /\ w.entities[k].Language = <<103, 111>>
                /\ w.entities[k].Length = 3

\* the code blocks walked so far, in document order
CodeBlocksWalked ==
    SelectSeq(spans, LAMBDA s : s.Kind = "FencedCodeBlock")

\* C36: one segment is recorded per code block, the empty ones too, in document order;
\* the bytes of the text from TextStart to TextEnd are RawCode, UTF16Start is the UTF-16
\* length of the text before TextStart, UTF16End - UTF16Start is the UTF-16 length of
\* RawCode, and no segment starts before the end of the one before it
C36_Segments ==
    pc = "code" =>
        LET final == Result(w).text
            blocks == CodeBlocksWalked
        IN  /\ Len(w.segments) = Len(blocks)
            /\ \A k \in 1..Len(w.segments) :
                  LET seg == w.segments[k]
                  IN  /\ seg.RawCode = CodeOf(blocks[k].Lines)
                      /\ seg.TextStart <= seg.TextEnd /\ seg.TextEnd <= Len(final)
                      /\ Slice(final, seg.TextStart, seg.TextEnd) = seg.RawCode
                      /\ seg.UTF16Start = UTF16Len(SubSeq(final, 1, seg.TextStart))
                      /\ seg.UTF16End - seg.UTF16Start = UTF16Len(seg.RawCode)
                      /\ k > 1 => seg.TextStart >= w.segments[k - 1].TextEnd

\* three code blocks were walked: an empty one first, one whose text has a character of
\* two UTF-16 units later, and a third after it
C36_Witness ==
    /\ pc = "code"
    /\ Len(w.segments) = 3
    /\ w.segments[1].RawCode = <<>>
    /\ w.segments[2].RawCode = ChE4 \o ChNL
    /\ w.segments[3].TextStart > w.segments[2].TextEnd

\* the table that is open, if one is
OpenTables == { k \in 1..Len(open) : open[k].Kind = "Table" }

\* C37: while a table is open nothing is written to the output after its block spacing,
\* and what a table that was exited has added after its block spacing is covered by the
\* one pre entity it has emitted
C37_CellsNeverWrite ==
    pc = "table" =>
        /\ \A k \in OpenTables : ByteOffset(w) = open[k].FromByte
        /\ \A n \in 1..Len(spans) :
              spans[n].Kind = "Table" /\ spans[n].End > spans[n].From =>
                  /\ Cardinality(spans[n].Emitted) = 1
                  /\ \A e \in spans[n].Emitted :
                        /\ w.entities[e].Type = "pre"
                        /\ w.entities[e].Offset = spans[n].From
                        /\ w.entities[e].Length = spans[n].End - spans[n].From

\* a step of the walk exits a table
ExitsTable ==
    /\ pc = "table"
    /\ Len(spans') = Len(spans) + 1
    /\ spans'[Len(spans')].Kind = "Table"

\* the lines of a text, split at the newlines
RECURSIVE LinesOf(_)
LinesOf(s) ==
    IF \E i \in 1..Len(s) : s[i] = 10
    THEN LET first == Minimum({ i \in 1..Len(s) : s[i] = 10 })
         IN  <<SubSeq(s, 1, first - 1)>> \o LinesOf(SubSeq(s, first + 1, Len(s)))
    ELSE <<s>>

\* the length of a text in characters
Characters(s) == Len(RangeString(s))

\* C38: the lines of the table that formatTable renders, the rows and the separator,
\* have the same length in characters, whatever the bytes of the cells
C38_EqualLineLengths ==
    [][ExitsTable =>
          LET lines == LinesOf(formatTable(w.tableRows))
          IN  \A i, j \in 1..Len(lines) : Characters(lines[i]) = Characters(lines[j])]_vars

(***************************************************************************)
(* PreprocessSpoilers: ||...|| outside the code regions becomes a          *)
(* tg-spoiler tag pair.                                                    *)
(***************************************************************************)
MaxPieces == 3

SpoilerOpen == <<60, 116, 103, 45, 115, 112, 111, 105, 108, 101, 114, 62>>

SpoilerClose == <<60, 47, 116, 103, 45, 115, 112, 111, 105, 108, 101, 114, 62>>

\* s has ``` at the index i
FenceAt(s, i) == i + 2 <= Len(s) /\ s[i] = 96 /\ s[i + 1] = 96 /\ s[i + 2] = 96

\* codeRegionRe matched at the index i of s: the index of the last byte of the match,
\* 0 if there is no match at i. The first alternative is ``` up to the next ```, the
\* second is ` , one byte or more that is neither ` nor a newline, and `
CodeRegionAt(s, i) ==
    LET closings == { j \in (i + 3)..Len(s) : FenceAt(s, j) }
        stops == { k \in (i + 1)..Len(s) : s[k] \in {96, 10} }
    IN  IF FenceAt(s, i) /\ closings # {} THEN Minimum(closings) + 2
        ELSE IF s[i] = 96 /\ stops # {} /\ s[Minimum(stops)] = 96 /\ Minimum(stops) > i + 1
             THEN Minimum(stops)
        ELSE 0

\* codeRegionRe.FindAllStringIndex(s, -1), from the index i on: the matches from left to
\* right, as the indices of their first and last bytes
RECURSIVE FindAllFrom(_, _)
FindAllFrom(s, i) ==
    IF i > Len(s) THEN <<>>
    ELSE IF CodeRegionAt(s, i) > 0
         THEN <<[first |-> i, last |-> CodeRegionAt(s, i)]>> \o FindAllFrom(s, CodeRegionAt(s, i) + 1)
    ELSE FindAllFrom(s, i + 1)

\* codeRegionRe.FindAllString(s, -1)
FindAllString(s) ==
    LET found == FindAllFrom(s, 1)
    IN  [m \in 1..Len(found) |-> SubSeq(s, found[m].first, found[m].last)]

\* codeRegionRe.Split(s, -1): the texts between the matches; the matches are not empty,
\* so there is one part more than there are matches
RegexpSplit(s) ==
    LET found == FindAllFrom(s, 1)
    IN  [p \in 1..(Len(found) + 1) |->
            SubSeq(s, IF p = 1 THEN 1 ELSE found[p - 1].last + 1,
                      IF p <= Len(found) THEN found[p].first - 1 ELSE Len(s))]

\* the loop of replaceSpoilerTags from the byte i (counted from 0)
RECURSIVE SpoilerLoop(_, _, _)
SpoilerLoop(s, i, inSpoiler) ==
    IF i >= Len(s) THEN <<>>
    ELSE IF i > 0 /\ s[i] = 92 /\ i + 1 < Len(s) /\ s[i + 1] = 124 /\ s[i + 2] = 124
         THEN <<s[i + 1]>> \o SpoilerLoop(s, i + 1, inSpoiler)
    ELSE IF i + 1 < Len(s) /\ s[i + 1] = 124 /\ s[i + 2] = 124
         THEN (IF inSpoiler THEN SpoilerClose ELSE SpoilerOpen)
                  \o SpoilerLoop(s, i + 2, ~inSpoiler)
    ELSE <<s[i + 1]>> \o SpoilerLoop(s, i + 1, inSpoiler)

replaceSpoilerTags(s) == SpoilerLoop(s, 0, FALSE)

\* parts and matches are counted from 0 in the code, from 1 here
PreprocessSpoilers(s) ==
    LET parts == RegexpSplit(s)
        matches == FindAllString(s)
    IN  Flatten([p \in 1..Len(parts) |->
            (IF (p - 1) % 2 = 0 \/ p - 1 >= Len(matches)
             THEN replaceSpoilerTags(parts[p]) ELSE parts[p])
            \o (IF p - 1 < Len(matches) THEN matches[p] ELSE <<>>)])

\* the pieces the texts are made of: "x", "||s||", "`c`", "`||c||`", "```||c||```"
SpoilerPieces ==
    { <<120>>,
      <<124, 124, 115, 124, 124>>,
      <<96, 99, 96>>,
      <<96, 124, 124, 99, 124, 124, 96>>,
      <<96, 96, 96, 124, 124, 99, 124, 124, 96, 96, 96>> }

\* the texts of up to MaxPieces pieces
SpoilerTexts ==
    { Flatten(ps) : ps \in UNION { [1..n -> SpoilerPieces] : n \in 0..MaxPieces } }

InitSpoilers ==
    /\ pc = "preprocess"
    /\ text \in SpoilerTexts
    /\ entities = <<>>
    /\ maxUTF16Len = 0
    /\ byteStart = 0
    /\ chunksRanges = <<>>
    /\ result = <<>>
    /\ stripped = <<>>
    /\ adjusted = <<>>
    /\ fullText = <<>>
    /\ fullEntities = <<>>
    /\ segments = <<>>
    /\ maxMessageLength = 0
    /\ renderOK = <<>>
    /\ codePoints = <<>>
    /\ counts = NotCalled
    /\ w = NewEventWalker
    /\ open = <<>>
    /\ spans = <<>>
    /\ walked = 0
    /\ tb = New
    /\ calls = <<>>
    /\ defaultConfig = Nil
    /\ defaultConfigOnce = NotDone
    /\ goroutines = <<>>

\* stripped holds the text that PreprocessSpoilers returns
CallPreprocessSpoilers ==
    /\ pc = "preprocess"
    /\ stripped' = PreprocessSpoilers(text)
    /\ pc' = "preprocessed"
    /\ UNCHANGED <<splitVars, adjusted, pipeVars, utfVars, walkVars, bufVars, goVars>>

NextSpoilers == CallPreprocessSpoilers

SpecSpoilers == InitSpoilers /\ [][NextSpoilers]_vars

\* every part of the text outside the code regions with its pairs replaced, and the
\* code regions between them as they are
EveryPartReplaced(s) ==
    LET parts == RegexpSplit(s)
        matches == FindAllString(s)
    IN  Flatten([p \in 1..Len(parts) |->
            replaceSpoilerTags(parts[p]) \o (IF p <= Len(matches) THEN matches[p] ELSE <<>>)])

\* C39: PreprocessSpoilers replaces the pairs ||...|| in every part of the text outside
\* the code regions, before the first region, between two regions and after the last,
\* and copies the code regions unchanged
C39_SpoilersOutsideCode ==
    pc = "preprocessed" => stripped = EveryPartReplaced(text)

(***************************************************************************)
(* TrimSpace of converter.go: the text without the white space around it,  *)
(* and the entities moved with it.                                         *)
(***************************************************************************)
\* isSpace of converter.go
isSpace(r) == r \in {32, 9, 10, 13}

\* the loop that finds the start offset: the index of the first rune that is not a
\* space for isSpace, 0 if there is none
StartOffset(t) ==
    LET others == { k \in 1..Len(RangeString(t)) : ~isSpace(RangeString(t)[k].r) }
    IN  IF others = {} THEN 0 ELSE RangeString(t)[Minimum(others)].i

\* the loop over the entities
RECURSIVE TrimEntities(_, _, _)
TrimEntities(ents, utf16Start, trimmedLen) ==
    IF ents = <<>> THEN <<>>
    ELSE LET ent == Head(ents)
             newOffset == ent.Offset - utf16Start
             newEnd == newOffset + ent.Length
             clipped == min(newEnd, trimmedLen) - max(0, newOffset)
             rest == TrimEntities(Tail(ents), utf16Start, trimmedLen)
         IN  IF newEnd <= 0 \/ newOffset >= trimmedLen \/ clipped <= 0 THEN rest
             ELSE <<[ent EXCEPT !.Offset = max(0, newOffset), !.Length = clipped]>> \o rest

TrimSpace(t, ents) ==
    LET trimmed == StringsTrimSpace(t)
    IN  IF trimmed = t THEN [Text |-> t, Entities |-> ents]
        ELSE [Text |-> trimmed,
              Entities |-> TrimEntities(ents, UTF16Len(Slice(t, 0, StartOffset(t))),
                                        UTF16Len(trimmed))]

\* a space, a vertical tab, U+00A0, "a" and a character of two UTF-16 units
TrimChars == { <<32>>, <<11>>, <<194, 160>>, ChA, ChE4 }

TrimTexts == TextsOver(TrimChars, MaxChars)

\* no entity, one entity, two entities that overlap
TrimEntityLists ==
    {<<>>} \cup { <<MessageEntity(KindBold, o, n)>> : o \in 0..MaxOffset, n \in 1..MaxOffset }
    \cup { <<MessageEntity(KindBold, 0, MaxOffset + 1), MessageEntity(KindBold, 1, 1)>> }

InitTrimSpace ==
    /\ pc = "trim"
    /\ text \in TrimTexts
    /\ entities \in TrimEntityLists
    /\ maxUTF16Len = 0
    /\ byteStart = 0
    /\ chunksRanges = <<>>
    /\ result = <<>>
    /\ stripped = <<>>
    /\ adjusted = <<>>
    /\ fullText = <<>>
    /\ fullEntities = <<>>
    /\ segments = <<>>
    /\ maxMessageLength = 0
    /\ renderOK = <<>>
    /\ codePoints = <<>>
    /\ counts = NotCalled
    /\ w = NewEventWalker
    /\ open = <<>>
    /\ spans = <<>>
    /\ walked = 0
    /\ tb = New
    /\ calls = <<>>
    /\ defaultConfig = Nil
    /\ defaultConfigOnce = NotDone
    /\ goroutines = <<>>

\* stripped and adjusted hold the text and the entities that TrimSpace returns
CallTrimSpace ==
    /\ pc = "trim"
    /\ stripped' = TrimSpace(text, entities).Text
    /\ adjusted' = TrimSpace(text, entities).Entities
    /\ pc' = "trimmed"
    /\ UNCHANGED <<splitVars, pipeVars, utfVars, walkVars, bufVars, goVars>>

NextTrimSpace == CallTrimSpace

SpecTrimSpace == InitTrimSpace /\ [][NextTrimSpace]_vars

\* the UTF-16 length of the white space that strings.TrimSpace removes at the start
LeadingRemoved(t) ==
    LET rest == TrimLeftRunes(RangeString(t))
    IN  UTF16Len(Slice(t, 0, IF rest = <<>> THEN Len(t) ELSE Head(rest).i))

\* the entities moved back by lead, cut to the text of total units, the empty ones left
\* out
MovedAndCut(ents, lead, total) ==
    LET cut(e) == [e EXCEPT !.Offset = max(0, e.Offset - lead),
                            !.Length = min(e.Offset - lead + e.Length, total)
                                       - max(0, e.Offset - lead)]
        all == [k \in 1..Len(ents) |-> cut(ents[k])]
    IN  SelectSeq(all, LAMBDA e : e.Length > 0)

\* C40: TrimSpace returns the text as strings.TrimSpace trims it; the entities are moved
\* back by the UTF-16 length of the white space removed at the start, whatever white
\* space it is, cut to the trimmed text and left out when empty; a text that is trimmed
\* already is returned with its entities as they are
C40_TrimSpace ==
    pc = "trimmed" =>
        /\ stripped = StringsTrimSpace(text)
        /\ adjusted = IF StringsTrimSpace(text) = text THEN entities
                      ELSE MovedAndCut(entities, LeadingRemoved(text),
                                       UTF16Len(StringsTrimSpace(text)))

====
